---- MODULE Spec2Model ----
(***************************************************************************)
(* A model of the kernel layer of dfdx: the host pooling kernels, the      *)
(* shared, copy-on-write Storage buffers they mutate, and the accelerator  *)
(* kernels with their load-on-first-use module cache.                      *)
(*                                                                         *)
(* Numbers.  Element values are exact rationals, held as integers in units *)
(* of 1/Scale, where Scale is a common multiple of every kernel area, so   *)
(* that the one division of the pooling kernels (by kernel*kernel) has no  *)
(* remainder.  Floating-point rounding is not modelled.  The two           *)
(* infinities are the sentinels Infinity and NegInfinity, which lie beyond *)
(* every finite value of the model.                                        *)
(***************************************************************************)
EXTENDS Integers, Sequences, FiniteSets, TLC

VARIABLES
    op,      \* the Pool2DOp / Conv2DOp descriptor of the operation
    kind,    \* which kernel family the operation is
    heap,    \* buffer id -> contents: the Arc'd buffers alive
    stor,    \* storage name -> [data |-> buffer id, strides |-> ...]
    calls,   \* number of backward calls made so far
    last,    \* the last kernel call
    pre,     \* contents of the mutated buffer before the last call
    seen,    \* copy-on-write: what the second view observed when it was taken
    modules, \* the device's module cache: module name -> its function names
    loads,   \* module name -> number of load_ptx calls that loaded it
    fwdOk,   \* module name -> number of forward calls that returned Ok
    ncalls,  \* number of accelerator kernel calls made so far
    lastCall,\* the last accelerator kernel call and its outcome
    threads, \* thread -> where it is in its forward call
    opt,     \* the optimizer's configuration, parameter, state and last update
    stream,  \* the device work the current accelerator call has issued, in order
    touched  \* the buffer elements the last host pooling call read and wrote

poolVars == <<op, kind, heap, stor, calls, last, pre, seen>>
devVars == <<modules, loads, fwdOk, ncalls, lastCall, threads>>
auxVars == <<opt, stream, touched>>
vars == <<op, kind, heap, stor, calls, last, pre, seen,
          modules, loads, fwdOk, ncalls, lastCall, threads, opt, stream, touched>>

(***************************************************************************)
(* Bounds of the model.                                                    *)
(***************************************************************************)
MaxKernel == 2
MaxPad == 1
MaxVal == 0
MaxCalls == 2
MaxKernelCalls == 3
NumThreads == 2

Strides == {1, 2}
Dims == {1, 2}
Batches == {1, 2}
Vals == (0 - 1)..MaxVal

RECURSIVE SquaresProduct(_)
SquaresProduct(k) == IF k = 0 THEN 1 ELSE k * k * SquaresProduct(k - 1)

\* The fixed-point denominator: every kernel area 1..MaxKernel^2 divides it.
Scale == SquaresProduct(MaxKernel)

\* F::infinity() and F::neg_infinity(), beyond every finite value.
Infinity == 1000000
NegInfinity == 0 - Infinity

\* F::zero()
Zero == 0

\* F::from(n): an integer as an element value.
From(n) == n * Scale

\* a / b for an element value a and b = F::from(n), in exact arithmetic.
FDiv(a, n) == a \div n

(***************************************************************************)
(* Option<usize>, as a sequence of length at most one.                     *)
(***************************************************************************)
None == <<>>
Some(v) == <<v>>

\* usize::checked_sub
checked_sub(a, b) == IF a >= b THEN Some(a - b) ELSE None

\* Option::zip
zip(y, x) == IF y # None /\ x # None THEN Some(<<y[1], x[1]>>) ELSE None

(***************************************************************************)
(* Shapes and strides.                                                     *)
(***************************************************************************)
\* The default (contiguous, row-major) strides of a 4d shape.
DefaultStrides(d) == <<d[2] * d[3] * d[4], d[3] * d[4], d[4], 1>>

\* make_4d for a 4d shape: the strides as they are.
make_4d(strides) == <<strides[1], strides[2], strides[3], strides[4]>>

InpShape(o) == <<o.batch, o.chan, o.h_in, o.w_in>>
OutShape(o) == <<o.batch, o.chan, o.h_out, o.w_out>>
NumElements(d) == d[1] * d[2] * d[3] * d[4]

(***************************************************************************)
(* Storage: shared ownership of a buffer, copy-on-write mutation.          *)
(***************************************************************************)
\* Arc::strong_count of buffer b.
StrongCount(st, b) == Cardinality({s \in DOMAIN st : st[s].data = b})

FreshId(h) == CHOOSE i \in 0..Cardinality(DOMAIN h) : i \notin DOMAIN h

\* Arc::make_mut(&mut st[s].data) without the copy: the buffer as it is.
MakeMutInPlace(h, st, s) == [heap |-> h, stor |-> st]

\* Arc::make_mut(&mut st[s].data): a unique buffer is handed out as it is; a
\* shared one is cloned first and s is pointed at the clone.
MakeMut(h, st, s) ==
    IF StrongCount(st, st[s].data) = 1
    THEN [heap |-> h, stor |-> st]
    ELSE LET b == FreshId(h)
         IN [heap |-> (b :> h[st[s].data]) @@ h,
             stor |-> [st EXCEPT ![s].data = b]]

\* The buffer a storage reads.
Buf(h, st, s) == h[st[s].data]

\* heap and stor after a kernel wrote `contents` through make_mut of s.
Written(h, st, s, contents) ==
    LET m == MakeMut(h, st, s)
    IN [heap |-> [m.heap EXCEPT ![m.stor[s].data] = contents], stor |-> m.stor]

(***************************************************************************)
(* The pooling loops of the host backend.                                  *)
(***************************************************************************)
NumWindows(o) == o.batch * o.chan * o.h_out * o.w_out

\* The i-th iteration of the loop nest  for b, for c, for oh, for ow.
Window(o, i) ==
    << i \div (o.chan * o.h_out * o.w_out),
       (i \div (o.h_out * o.w_out)) % o.chan,
       (i \div o.w_out) % o.h_out,
       i % o.w_out >>

\* b * ostr[0] + c * ostr[1] + oh * ostr[2] + ow * ostr[3]
OutIdx(ostr, w) == w[1] * ostr[1] + w[2] * ostr[2] + w[3] * ostr[3] + w[4] * ostr[4]

\* As WindowPos, without  if y < op.h_in && x < op.w_in.
WindowPosNoEdgeTest(o, istr, w, k1, k2) ==
    LET y == checked_sub(w[3] * o.stride + k1, o.padding)
        x == checked_sub(w[4] * o.stride + k2, o.padding)
        yx == zip(y, x)
    IN IF yx # None
       THEN Some(w[1] * istr[1] + w[2] * istr[2] + yx[1][1] * istr[3] + yx[1][2] * istr[4])
       ELSE None

\* The input index of kernel position (k1, k2) of window w, if the position
\* lies inside the input.
WindowPos(o, istr, w, k1, k2) ==
    LET y == checked_sub(w[3] * o.stride + k1, o.padding)
        x == checked_sub(w[4] * o.stride + k2, o.padding)
        yx == zip(y, x)
    IN IF yx # None /\ yx[1][1] < o.h_in /\ yx[1][2] < o.w_in
       THEN Some(w[1] * istr[1] + w[2] * istr[2] + yx[1][1] * istr[3] + yx[1][2] * istr[4])
       ELSE None

\* The j-th iteration of  for k1, for k2.
KPos(o, w, istr, j) == WindowPos(o, istr, w, j \div o.kernel, j % o.kernel)

KernelArea(o) == o.kernel * o.kernel

RECURSIVE FoldWindow(_, _, _, _, _, _, _)
\* The two inner loops of a forward kernel: fold the in-bounds elements of
\* window w into tmp with the combine rule named by k.
FoldWindow(k, o, istr, buf, w, j, tmp) ==
    IF j = KernelArea(o) THEN tmp
    ELSE LET p == KPos(o, w, istr, j)
             v == IF p = None THEN tmp
                  ELSE CASE k = "avg" -> tmp + buf[p[1]]
                         [] k = "max" -> IF buf[p[1]] > tmp THEN buf[p[1]] ELSE tmp
                         [] k = "min" -> IF buf[p[1]] < tmp THEN buf[p[1]] ELSE tmp
         IN FoldWindow(k, o, istr, buf, w, j + 1, v)

\* tmp /= F::from(op.kernel * op.kernel) with the number of in-bounds
\* positions as the divisor instead: the other pooling convention.
AvgFwdValueByCount(o, istr, buf, w) ==
    LET n == Cardinality({j \in 0..(KernelArea(o) - 1) : KPos(o, w, istr, j) # None})
        s == FoldWindow("avg", o, istr, buf, w, 0, Zero)
    IN IF n = 0 THEN s ELSE s \div n

\* The value avg-pool forward stores for window w.
AvgFwdValue(o, istr, buf, w) ==
    FDiv(FoldWindow("avg", o, istr, buf, w, 0, Zero), KernelArea(o))

\* The value max-pool forward stores for window w.
MaxFwdValue(o, istr, buf, w) == FoldWindow("max", o, istr, buf, w, 0, NegInfinity)

\* `let mut tmp = F::zero()` in min-pool: the accumulator of avg-pool.
MinFwdValueFromZero(o, istr, buf, w) == FoldWindow("min", o, istr, buf, w, 0, Zero)

\* The value min-pool forward stores for window w.
MinFwdValue(o, istr, buf, w) == FoldWindow("min", o, istr, buf, w, 0, Infinity)

FwdValue(k, o, istr, buf, w) ==
    CASE k = "avg" -> AvgFwdValue(o, istr, buf, w)
      [] k = "max" -> MaxFwdValue(o, istr, buf, w)
      [] k = "min" -> MinFwdValue(o, istr, buf, w)

RECURSIVE ForwardLoop(_, _, _, _, _, _, _)
\* The loop nest of a forward kernel from its i-th window on.
ForwardLoop(k, o, istr, ostr, buf, out_buf, i) ==
    IF i = NumWindows(o) THEN out_buf
    ELSE LET w == Window(o, i)
         IN ForwardLoop(k, o, istr, ostr, buf,
                        [out_buf EXCEPT ![OutIdx(ostr, w)] = FwdValue(k, o, istr, buf, w)],
                        i + 1)

(***************************************************************************)
(* The backward loops.                                                     *)
(***************************************************************************)
\* g with the number of in-bounds positions of the window as the divisor.
AvgBwdGradByCount(o, istr, ostr, gout_buf, w) ==
    LET n == Cardinality({j \in 0..(KernelArea(o) - 1) : KPos(o, w, istr, j) # None})
    IN IF n = 0 THEN gout_buf[OutIdx(ostr, w)] ELSE gout_buf[OutIdx(ostr, w)] \div n

\* let g = buf[out_idx] / F::from(op.kernel * op.kernel)
AvgBwdGrad(o, istr, ostr, gout_buf, w) ==
    FDiv(gout_buf[OutIdx(ostr, w)], KernelArea(o))

\* ginp_buf[idx] = g: the store without the add.
AvgBwdStoreOverwrite(ginp_buf, idx, g) == [ginp_buf EXCEPT ![idx] = g]

\* ginp_buf[idx] += g
AvgBwdStore(ginp_buf, idx, g) == [ginp_buf EXCEPT ![idx] = @ + g]

RECURSIVE AvgBwdWindow(_, _, _, _, _, _)
\* The two inner loops of avg-pool backward for window w.
AvgBwdWindow(o, istr, ginp_buf, w, g, j) ==
    IF j = KernelArea(o) THEN ginp_buf
    ELSE LET p == KPos(o, w, istr, j)
         IN AvgBwdWindow(o, istr,
                         IF p = None THEN ginp_buf ELSE AvgBwdStore(ginp_buf, p[1], g),
                         w, g, j + 1)

RECURSIVE AvgBwdLoop(_, _, _, _, _, _)
AvgBwdLoop(o, istr, ostr, gout_buf, ginp_buf, i) ==
    IF i = NumWindows(o) THEN ginp_buf
    ELSE LET w == Window(o, i)
             g == AvgBwdGrad(o, istr, ostr, gout_buf, w)
         IN AvgBwdLoop(o, istr, ostr, gout_buf,
                       AvgBwdWindow(o, istr, ginp_buf, w, g, 0), i + 1)

RECURSIVE ExtBwdWindowFrom(_, _, _, _, _, _, _, _, _)
\* The two inner loops of max/min-pool backward for window w, from kernel
\* position j on; with firstOnly, only the first matching position is given
\* the gradient.
ExtBwdWindowFrom(firstOnly, o, istr, inp_buf, ginp_buf, w, go, vo, j) ==
    IF j = KernelArea(o) THEN ginp_buf
    ELSE LET p == KPos(o, w, istr, j)
             hit == p # None /\ inp_buf[p[1]] = vo
         IN IF hit /\ firstOnly THEN [ginp_buf EXCEPT ![p[1]] = @ + go]
            ELSE ExtBwdWindowFrom(firstOnly, o, istr, inp_buf,
                                  IF hit THEN [ginp_buf EXCEPT ![p[1]] = @ + go]
                                  ELSE ginp_buf,
                                  w, go, vo, j + 1)

\* As ExtBwdWindow, but routing the gradient to a single argmax/argmin.
ExtBwdWindowFirstOnly(o, istr, inp_buf, ginp_buf, w, go, vo) ==
    ExtBwdWindowFrom(TRUE, o, istr, inp_buf, ginp_buf, w, go, vo, 0)

\* if inp_buf[inp_idx] == vo { ginp_buf[inp_idx] += go } over the window.
ExtBwdWindow(o, istr, inp_buf, ginp_buf, w, go, vo) ==
    ExtBwdWindowFrom(FALSE, o, istr, inp_buf, ginp_buf, w, go, vo, 0)

RECURSIVE ExtBwdLoop(_, _, _, _, _, _, _, _)
\* The loop nest of max-pool and of min-pool backward (the same code twice).
ExtBwdLoop(o, istr, ostr, inp_buf, out_buf, gout_buf, ginp_buf, i) ==
    IF i = NumWindows(o) THEN ginp_buf
    ELSE LET w == Window(o, i)
             out_idx == OutIdx(ostr, w)
             go == gout_buf[out_idx]
             vo == out_buf[out_idx]
         IN ExtBwdLoop(o, istr, ostr, inp_buf, out_buf, gout_buf,
                       ExtBwdWindow(o, istr, inp_buf, ginp_buf, w, go, vo), i + 1)

(***************************************************************************)
(* The kernel calls.                                                       *)
(***************************************************************************)
\* The buffers a call of family k and direction dir indexes once per window:
\* out_buf[..] = tmp in forward, buf[..] or gout_buf[out_idx] and
\* out_buf[out_idx] in backward.
WindowBuffers(k, dir) ==
    IF dir = "forward" THEN {"out"}
    ELSE IF k = "avg" THEN {"grad_out"}
    ELSE {"grad_out", "out"}

\* The buffers the call indexes at a kernel position it does not skip:
\* buf[inp_idx] in forward, ginp_buf[..] in avg-pool backward,
\* inp_buf[inp_idx] and, where the values are equal, ginp_buf[inp_idx] in
\* max-pool and min-pool backward.
PositionBuffers(k, dir) ==
    IF dir = "forward" THEN {"inp"}
    ELSE IF k = "avg" THEN {"grad_inp"}
    ELSE {"inp", "grad_inp"}

\* The indices the loop nest computes, by iteration: the output index of
\* each window and, for each kernel position, the input index or None when
\* the position is skipped.
Accesses ==
    LET istr == make_4d(stor["inp"].strides)
        ostr == make_4d(stor["out"].strides)
    IN [window |-> [i \in 0..(NumWindows(op) - 1) |-> OutIdx(ostr, Window(op, i))],
        position |-> [i \in 0..(NumWindows(op) - 1) |->
                         [j \in 0..(KernelArea(op) - 1) |-> KPos(op, Window(op, i), istr, j)]]]

\* buf[idx] with idx >= buf.len(): the slice index panics.
IndexPanics(k, dir, t) ==
    \/ \E i \in DOMAIN t.window, name \in WindowBuffers(k, dir) :
          t.window[i] \notin DOMAIN Buf(heap, stor, name)
    \/ \E i \in DOMAIN t.position, name \in PositionBuffers(k, dir) :
          \E j \in DOMAIN t.position[i] :
              /\ t.position[i][j] # None
              /\ t.position[i][j][1] \notin DOMAIN Buf(heap, stor, name)

\* forward(op, inp, out) of the kernel family k.
Forward(k) ==
    /\ kind = k
    /\ last # "panic"
    /\ touched' = Accesses
    /\ IF IndexPanics(k, "forward", touched')
       THEN /\ last' = "panic"
            /\ UNCHANGED <<heap, stor, pre>>
       ELSE /\ LET r == Written(heap, stor, "out",
                                ForwardLoop(k, op, make_4d(stor["inp"].strides),
                                            make_4d(stor["out"].strides),
                                            Buf(heap, stor, "inp"), Buf(heap, stor, "out"), 0))
               IN /\ heap' = r.heap
                  /\ stor' = r.stor
            /\ pre' = Buf(heap, stor, "out")
            /\ last' = "forward"
    /\ UNCHANGED <<op, kind, calls, seen, devVars, opt, stream>>

AvgPool2DForward == Forward("avg")
MaxPool2DForward == Forward("max")
MinPool2DForward == Forward("min")

\* What backward leaves in grad_inp's buffer.
BackwardResult(k) ==
    LET istr == make_4d(stor["inp"].strides)
        ostr == make_4d(stor["out"].strides)
    IN IF k = "avg"
       THEN AvgBwdLoop(op, istr, ostr, Buf(heap, stor, "grad_out"),
                       Buf(heap, stor, "grad_inp"), 0)
       ELSE ExtBwdLoop(op, istr, ostr, Buf(heap, stor, "inp"), Buf(heap, stor, "out"),
                       Buf(heap, stor, "grad_out"), Buf(heap, stor, "grad_inp"), 0)

\* backward(op, inp, grad_inp, out, grad_out) of the kernel family k, called
\* after the forward call that recorded out.
Backward(k) ==
    /\ kind = k
    /\ last \notin {"init", "panic"}
    /\ calls < MaxCalls
    /\ touched' = Accesses
    /\ IF IndexPanics(k, "backward", touched')
       THEN /\ last' = "panic"
            /\ UNCHANGED <<heap, stor, pre>>
       ELSE /\ LET r == Written(heap, stor, "grad_inp", BackwardResult(k))
               IN /\ heap' = r.heap
                  /\ stor' = r.stor
            /\ pre' = Buf(heap, stor, "grad_inp")
            /\ last' = "backward"
    /\ calls' = calls + 1
    /\ UNCHANGED <<op, kind, seen, devVars, opt, stream>>

AvgPool2DBackward == Backward("avg")
MaxPool2DBackward == Backward("max")
MinPool2DBackward == Backward("min")

(***************************************************************************)
(* The pooling specification: one operation, its input, its output and the *)
(* two gradient buffers, each Storage owning its buffer alone.             *)
(***************************************************************************)
Pool2DOps ==
    [kernel : 1..MaxKernel, stride : Strides, padding : 0..MaxPad,
     batch : Batches, chan : {1}, h_in : Dims, w_in : Dims, h_out : Dims, w_out : Dims]

\* Input patterns: the element at index i is the (i mod 3)-th value of the seed.
InpSeeds == [0..2 -> Vals]
InpData(o, seed) == [i \in 0..(NumElements(InpShape(o)) - 1) |-> From(seed[i % 3])]

\* Upstream gradients: a different positive value for each window.
GradOutData(o) == [i \in 0..(NumElements(OutShape(o)) - 1) |-> From(i + 1)]

\* What earlier backward passes left in grad_inp: zero and non-zero entries.
GradInpData(o) == [i \in 0..(NumElements(InpShape(o)) - 1) |-> From(i % 2)]

\* A freshly zeroed output.
Zeros(n) == [i \in 0..(n - 1) |-> Zero]

InitMemory(o, seed) ==
    /\ heap = (0 :> InpData(o, seed)) @@ (1 :> Zeros(NumElements(OutShape(o))))
              @@ (2 :> GradInpData(o)) @@ (3 :> GradOutData(o))
    /\ stor = ("inp" :> [data |-> 0, strides |-> DefaultStrides(InpShape(o))])
              @@ ("out" :> [data |-> 1, strides |-> DefaultStrides(OutShape(o))])
              @@ ("grad_inp" :> [data |-> 2, strides |-> DefaultStrides(InpShape(o))])
              @@ ("grad_out" :> [data |-> 3, strides |-> DefaultStrides(OutShape(o))])

NoCall == [k |-> <<>>, dir |-> "none", loaded |-> FALSE, result |-> "none"]

\* A device nothing has been loaded on, and no call made.
InitDevice ==
    /\ modules = <<>>
    /\ loads = <<>>
    /\ fwdOk = <<>>
    /\ ncalls = 0
    /\ lastCall = NoCall
    /\ threads = <<>>
    /\ opt = <<>>
    /\ stream = <<>>
    /\ touched = <<>>

InitPool ==
    /\ InitDevice
    /\ op \in Pool2DOps
    /\ kind \in {"avg", "max", "min"}
    /\ \E seed \in InpSeeds : InitMemory(op, seed)
    /\ calls = 0
    /\ last = "init"
    /\ pre = <<>>
    /\ seen = <<>>

NextPool ==
    \/ AvgPool2DForward
    \/ MaxPool2DForward
    \/ MinPool2DForward
    \/ AvgPool2DBackward
    \/ MaxPool2DBackward
    \/ MinPool2DBackward

SpecPool == InitPool /\ [][NextPool]_vars

(***************************************************************************)
(* The reference the kernels are checked against, stated over logical      *)
(* coordinates (b, c, y, x) of the input and (b, c, oh, ow) of the output. *)
(***************************************************************************)
RECURSIVE Sum(_, _)
\* The sum of f over its finite domain restricted to S.
Sum(f, S) == IF S = {} THEN 0
             ELSE LET e == CHOOSE e \in S : TRUE IN f[e] + Sum(f, S \ {e})

InpCoords(o) == (0..(o.batch - 1)) \X (0..(o.chan - 1)) \X (0..(o.h_in - 1)) \X (0..(o.w_in - 1))
OutCoords(o) == (0..(o.batch - 1)) \X (0..(o.chan - 1)) \X (0..(o.h_out - 1)) \X (0..(o.w_out - 1))

\* Row-major position of a coordinate in a contiguous buffer of shape d.
Flat(d, c) == ((c[1] * d[2] + c[2]) * d[3] + c[3]) * d[4] + c[4]

\* Window w covers input coordinate c: some kernel position of w lands on c.
Covers(o, w, c) ==
    /\ w[1] = c[1] /\ w[2] = c[2]
    /\ c[3] + o.padding - w[3] * o.stride \in 0..(o.kernel - 1)
    /\ c[4] + o.padding - w[4] * o.stride \in 0..(o.kernel - 1)

\* The input coordinates window w covers: its in-bounds positions.
InBounds(o, w) == {c \in InpCoords(o) : Covers(o, w, c)}
WindowsOver(o, c) == {w \in OutCoords(o) : Covers(o, w, c)}

InpAt(c) == Buf(heap, stor, "inp")[Flat(InpShape(op), c)]
OutAt(w) == Buf(heap, stor, "out")[Flat(OutShape(op), w)]
GradOutAt(w) == Buf(heap, stor, "grad_out")[Flat(OutShape(op), w)]
GradInpAt(c) == Buf(heap, stor, "grad_inp")[Flat(InpShape(op), c)]
PreAt(c) == pre[Flat(InpShape(op), c)]

\* What one max/min backward call owes input coordinate c: the whole upstream
\* gradient of every window over c whose recorded output equals the input.
ExtContribution(c) ==
    Sum([w \in OutCoords(op) |-> GradOutAt(w)],
        {w \in WindowsOver(op, c) : InpAt(c) = OutAt(w)})

\* What one avg backward call owes input coordinate c.
AvgContribution(c) ==
    Sum([w \in OutCoords(op) |-> GradOutAt(w) \div KernelArea(op)], WindowsOver(op, c))

Contribution(c) == IF kind = "avg" THEN AvgContribution(c) ELSE ExtContribution(c)

\* The positions of window w that tie at its recorded output.
Ties(w) == {c \in InBounds(op, w) : InpAt(c) = OutAt(w)}

(***************************************************************************)
(* C1.  Max-pool and min-pool backward: every in-bounds input position     *)
(* whose value equals the recorded output of a window over it receives     *)
(* that window's whole upstream gradient (K tying positions receive it K   *)
(* times over, undivided); a position whose value differs receives nothing *)
(* from that window.                                                       *)
(***************************************************************************)
C1_TiesGetFullGradient ==
    (last = "backward" /\ kind \in {"max", "min"}) =>
        \A c \in InpCoords(op) : GradInpAt(c) - PreAt(c) = ExtContribution(c)

\* A max-pool backward over a window with two tying positions and one that
\* differs, the window being the only one over either tying position.
C1_Witness ==
    /\ last = "backward" /\ kind = "max"
    /\ \E w \in OutCoords(op) :
          /\ \E c1 \in Ties(w), c2 \in Ties(w) :
                /\ c1 # c2
                /\ WindowsOver(op, c1) = {w} /\ WindowsOver(op, c2) = {w}
                /\ GradInpAt(c1) - PreAt(c1) = GradOutAt(w)
                /\ GradInpAt(c2) - PreAt(c2) = GradOutAt(w)
          /\ \E c3 \in InBounds(op, w) \ Ties(w) : GradInpAt(c3) = PreAt(c3)

(***************************************************************************)
(* C2.  Pooling backward accumulates: after n backward calls with the same *)
(* arguments grad_inp holds, element by element, its initial contents plus *)
(* n times the contribution of one call, a position under several windows  *)
(* receiving the sum of theirs; nothing is overwritten or reset.           *)
(***************************************************************************)
C2_BackwardAccumulates ==
    (last # "init") =>
        \A c \in InpCoords(op) :
            GradInpAt(c) = GradInpData(op)[Flat(InpShape(op), c)] + calls * Contribution(c)

\* Two backward calls, and a position with non-zero initial gradient that
\* lies under two windows and is owed a non-zero contribution.
C2_Witness ==
    /\ last = "backward" /\ calls = 2
    /\ \E c \in InpCoords(op) :
          /\ Cardinality(WindowsOver(op, c)) >= 2
          /\ GradInpData(op)[Flat(InpShape(op), c)] # 0
          /\ Contribution(c) # 0

(***************************************************************************)
(* C3.  Avg-pool forward: each output element is the sum of the input over *)
(* the window's in-bounds positions divided by kernel * kernel, the full   *)
(* kernel area, whatever number of positions is out of bounds.            *)
(***************************************************************************)
C3_AvgForwardFullArea ==
    (last = "forward" /\ kind = "avg") =>
        \A w \in OutCoords(op) :
            LET s == Sum([c \in InpCoords(op) |-> InpAt(c)], InBounds(op, w))
            IN /\ OutAt(w) * KernelArea(op) = s
               /\ OutAt(w) = s \div KernelArea(op)

\* An avg-pool forward with a window partly out of bounds and a non-zero
\* output, and a window wholly out of bounds.
C3_Witness ==
    /\ last = "forward" /\ kind = "avg"
    /\ \E w \in OutCoords(op) :
          /\ InBounds(op, w) # {}
          /\ Cardinality(InBounds(op, w)) < KernelArea(op)
          /\ OutAt(w) # 0
    /\ \E w \in OutCoords(op) : InBounds(op, w) = {} /\ OutAt(w) = 0

(***************************************************************************)
(* C4.  Avg-pool backward: each window adds grad_out / (kernel * kernel)   *)
(* to each of its in-bounds positions and nothing elsewhere, so that the   *)
(* call adds, in total, the sum over the windows of                        *)
(* grad_out * (in-bounds positions of the window) / (kernel * kernel).     *)
(***************************************************************************)
C4_AvgBackwardShare ==
    (last = "backward" /\ kind = "avg") =>
        /\ \A c \in InpCoords(op) :
              GradInpAt(c) - PreAt(c)
                = Sum([w \in OutCoords(op) |-> GradOutAt(w) \div KernelArea(op)],
                      WindowsOver(op, c))
        /\ Sum([c \in InpCoords(op) |-> GradInpAt(c) - PreAt(c)], InpCoords(op))
             = Sum([w \in OutCoords(op) |->
                       (GradOutAt(w) * Cardinality(InBounds(op, w))) \div KernelArea(op)],
                   OutCoords(op))

\* An avg-pool backward with a single window, partly out of bounds: the
\* total added is grad_out * count / area, less than grad_out.
C4_Witness ==
    /\ last = "backward" /\ kind = "avg" /\ calls = 1
    /\ NumWindows(op) = 1
    /\ \E w \in OutCoords(op) :
          /\ Cardinality(InBounds(op, w)) \in 1..(KernelArea(op) - 1)
          /\ Sum([c \in InpCoords(op) |-> GradInpAt(c) - PreAt(c)], InpCoords(op))
               = (GradOutAt(w) * Cardinality(InBounds(op, w))) \div KernelArea(op)
          /\ \A c \in InpCoords(op) \ InBounds(op, w) : GradInpAt(c) = PreAt(c)

(***************************************************************************)
(* The copy-on-write specification: the pooling kernels again, with a      *)
(* second Storage, "view", that may be taken of (and so share the buffer   *)
(* of) the output or the input gradient, and dropped.                      *)
(***************************************************************************)
\* view = s.clone(): a second Storage on the buffer of s.
CloneView(s) ==
    /\ "view" \notin DOMAIN stor
    /\ stor' = ("view" :> stor[s]) @@ stor
    /\ seen' = [src |-> s, vals |-> Buf(heap, stor, s)]
    /\ UNCHANGED <<op, kind, heap, calls, last, pre, devVars, auxVars>>

\* drop(view): the buffer goes with its last owner.
DropView ==
    /\ "view" \in DOMAIN stor
    /\ stor' = [s \in DOMAIN stor \ {"view"} |-> stor[s]]
    /\ heap' = [b \in {stor'[s].data : s \in DOMAIN stor'} |-> heap[b]]
    /\ seen' = <<>>
    /\ UNCHANGED <<op, kind, calls, last, pre, devVars, auxVars>>

InitCow ==
    /\ InitPool
    /\ op.stride = 1
    /\ op.batch = 1 /\ op.h_in = 2 /\ op.w_in = 2 /\ op.h_out = 2 /\ op.w_out = 2

NextCow ==
    \/ NextPool
    \/ \E s \in {"out", "grad_inp"} : CloneView(s)
    \/ DropView

SpecCow == InitCow /\ [][NextCow]_vars

(***************************************************************************)
(* C5.  Copy-on-write: whatever kernel calls mutate a Storage whose buffer *)
(* is shared with a second Storage, the second Storage goes on observing   *)
(* exactly the values it observed when it was taken; the kernel writes to  *)
(* a buffer the second Storage does not own.                               *)
(***************************************************************************)
C5_CopyOnWrite ==
    ("view" \in DOMAIN stor) =>
        /\ Buf(heap, stor, "view") = seen.vals
        /\ (Buf(heap, stor, seen.src) # seen.vals
               => stor[seen.src].data # stor["view"].data)

\* A backward call has changed grad_inp while a view taken of it before the
\* call is alive: grad_inp now owns a buffer of its own.
C5_Witness ==
    /\ "view" \in DOMAIN stor
    /\ seen.src = "grad_inp"
    /\ last = "backward"
    /\ stor["grad_inp"].data # stor["view"].data
    /\ Buf(heap, stor, "grad_inp") # Buf(heap, stor, "view")
    /\ Buf(heap, stor, "view") = seen.vals

(***************************************************************************)
(* The accelerator backend: named kernels and the device's module cache.   *)
(* A kernel is an operation at an element type.  The six comparison        *)
(* operations are instances of one macro; eq stands for them.              *)
(***************************************************************************)
Kernels ==
    ({"choose", "conv2d", "min", "gather", "select"} \X {"f32", "f64"})
        \cup ({"eq", "scalar_eq"} \X {"f32"})

\* HasCudaKernel::MOD, MODULE_NAME, $GatherMod, $SelectMod
MOD(k) ==
    CASE k = <<"choose", "f32">> -> "choose_f32"
      [] k = <<"choose", "f64">> -> "choose_f64"
      [] k = <<"conv2d", "f32">> -> "conv2d_f32"
      [] k = <<"conv2d", "f64">> -> "conv2d_f64"
      [] k = <<"min", "f32">> -> "min_f32"
      [] k = <<"min", "f64">> -> "min_f64"
      [] k = <<"gather", "f32">> -> "gather_f32"
      [] k = <<"gather", "f64">> -> "gather_f64"
      [] k = <<"select", "f32">> -> "select_f32"
      [] k = <<"select", "f64">> -> "select_f64"
      [] k = <<"eq", "f32">> -> "eq_fwd_f32"
      [] k = <<"scalar_eq", "f32">> -> "scalar_eq_fwd_f32"

\* HasCudaKernel::FNS: every function of the module.
FNS(k) ==
    CASE k = <<"choose", "f32">> -> <<"choose_fwd_f32", "choose_bwd_f32">>
      [] k = <<"choose", "f64">> -> <<"choose_fwd_f64", "choose_bwd_f64">>
      [] k = <<"conv2d", "f32">> ->
            <<"unfold_input_into_patches_f32", "unfold_output_into_patches_f32",
              "transpose_and_broadcast_filters_f32", "sum_transposed_filters_f32">>
      [] k = <<"conv2d", "f64">> ->
            <<"unfold_input_into_patches_f64", "unfold_output_into_patches_f64",
              "transpose_and_broadcast_filters_f64", "sum_transposed_filters_f64">>
      [] k = <<"min", "f32">> -> <<"min_to_fwd_f32", "min_to_bwd_f32", "fill_with_f32">>
      [] k = <<"min", "f64">> -> <<"min_to_fwd_f64", "min_to_bwd_f64", "fill_with_f64">>
      [] k = <<"gather", "f32">> -> <<"gather_fwd_f32", "gather_bwd_f32">>
      [] k = <<"gather", "f64">> -> <<"gather_fwd_f64", "gather_bwd_f64">>
      [] k = <<"select", "f32">> -> <<"select_fwd_f32", "select_bwd_f32">>
      [] k = <<"select", "f64">> -> <<"select_fwd_f64", "select_bwd_f64">>
      [] k = <<"eq", "f32">> -> <<"eq_fwd_f32">>
      [] k = <<"scalar_eq", "f32">> -> <<"scalar_eq_fwd_f32">>

\* The function forward asks has_func for: FNS[0].
CheckFn(k) == FNS(k)[1]

\* load_ptx with the functions after the first: the slice &FNS[1..].
LoadPtxFnsAfterFirst(k) == Tail(FNS(k))

\* load_ptx with the forward function alone.
LoadPtxFnsForwardOnly(k) == <<FNS(k)[1]>>

\* The function names forward hands to load_ptx.
LoadPtxFns(k) == FNS(k)

\* The functions forward takes with get_func(..).unwrap(), in order.
FwdFns(k) ==
    IF k[1] = "min" THEN <<FNS(k)[3], FNS(k)[1]>> ELSE <<FNS(k)[1]>>

\* The functions backward takes with get_func(..).unwrap(), in order; the
\* comparison kernels have no backward.
BwdFns(k) ==
    CASE k[1] = "conv2d" -> <<FNS(k)[2], FNS(k)[3], FNS(k)[4]>>
      [] k[1] \in {"eq", "scalar_eq"} -> <<>>
      [] OTHER -> <<FNS(k)[2]>>

Range(f) == {f[i] : i \in DOMAIN f}

\* CudaDevice::has_func
has_func(mods, m, f) == m \in DOMAIN mods /\ f \in mods[m]

\* CudaDevice::load_ptx: the module is inserted under its name.
load_ptx(mods, m, fns) == (m :> Range(fns)) @@ mods

\* CudaDevice::get_func
get_func(mods, m, f) == IF has_func(mods, m, f) THEN Some(<<m, f>>) ELSE None

\* One more in a counter kept per module name.
Bump(c, m) == (m :> (IF m \in DOMAIN c THEN c[m] + 1 ELSE 1)) @@ c
Count(c, m) == IF m \in DOMAIN c THEN c[m] ELSE 0

\* Every get_func(..).unwrap() of fns finds its function.
AllFound(mods, m, fns) == \A i \in DOMAIN fns : get_func(mods, m, fns[i]) # None

\* if !self.dev.has_func(Self::MOD, Self::FNS[0])
NeedsLoad(mods, k) == ~has_func(mods, MOD(k), CheckFn(k))

\* A forward call on the accelerator.  loadOk: whether load_ptx, if called,
\* succeeds (it returns an error for a missing or malformed artifact).
CudaForward(k, loadOk) ==
    /\ ncalls < MaxKernelCalls
    /\ lastCall.result # "panic"
    /\ ncalls' = ncalls + 1
    /\ IF NeedsLoad(modules, k) /\ ~loadOk
       THEN /\ lastCall' = [k |-> k, dir |-> "forward", loaded |-> FALSE, result |-> "err"]
            /\ UNCHANGED <<modules, loads, fwdOk>>
       ELSE LET mods == IF NeedsLoad(modules, k)
                        THEN load_ptx(modules, MOD(k), LoadPtxFns(k))
                        ELSE modules
                found == AllFound(mods, MOD(k), FwdFns(k))
            IN /\ modules' = mods
               /\ loads' = IF NeedsLoad(modules, k) THEN Bump(loads, MOD(k)) ELSE loads
               /\ fwdOk' = IF found THEN Bump(fwdOk, MOD(k)) ELSE fwdOk
               /\ lastCall' = [k |-> k, dir |-> "forward",
                               loaded |-> NeedsLoad(modules, k),
                               result |-> IF found THEN "ok" ELSE "panic"]
    /\ UNCHANGED <<poolVars, auxVars, threads>>

\* A backward call on the accelerator: no has_func test, no load_ptx.
CudaBackward(k) ==
    /\ ncalls < MaxKernelCalls
    /\ lastCall.result # "panic"
    /\ BwdFns(k) # <<>>
    /\ ncalls' = ncalls + 1
    /\ lastCall' = [k |-> k, dir |-> "backward", loaded |-> FALSE,
                    result |-> IF AllFound(modules, MOD(k), BwdFns(k))
                               THEN "ok" ELSE "panic"]
    /\ UNCHANGED <<poolVars, auxVars, modules, loads, fwdOk, threads>>

\* The host state plays no part on the accelerator.
InitIdleHost ==
    /\ op = <<>> /\ kind = "cuda" /\ heap = <<>> /\ stor = <<>>
    /\ calls = 0 /\ last = "init" /\ pre = <<>> /\ seen = <<>>

InitCuda == InitIdleHost /\ InitDevice

\* Any sequence of forward and backward calls, one at a time.
NextCuda ==
    \/ \E k \in Kernels, loadOk \in BOOLEAN : CudaForward(k, loadOk)
    \/ \E k \in Kernels : CudaBackward(k)

SpecCuda == InitCuda /\ [][NextCuda]_vars

(***************************************************************************)
(* C6.  No kernel call on the accelerator fails or panics because its      *)
(* kernel is missing, whatever the sequence of forward and backward calls, *)
(* a backward call on a device whose module is not loaded included.        *)
(***************************************************************************)
C6_NoCallFindsKernelMissing == lastCall.result # "panic"

(***************************************************************************)
(* C7.  Load and cache: a module is loaded at most once, by the first      *)
(* forward call of its kernel whose load_ptx succeeds; the load registers  *)
(* every function of the module; the entry is never removed, so that every *)
(* later forward or backward call of that kernel finds its functions and   *)
(* no later forward call loads again.                                      *)
(***************************************************************************)
C7_LoadedOnceAndCached ==
    /\ \A k \in Kernels :
          /\ Count(loads, MOD(k)) <= 1
          /\ (MOD(k) \in DOMAIN modules <=> Count(loads, MOD(k)) = 1)
          /\ (MOD(k) \in DOMAIN modules => modules[MOD(k)] = Range(FNS(k)))
          /\ (Count(fwdOk, MOD(k)) >= 1 => MOD(k) \in DOMAIN modules)
    /\ lastCall # NoCall =>
          /\ (lastCall.loaded => Count(fwdOk, MOD(lastCall.k)) = 1)
          /\ (lastCall.result = "panic" =>
                 lastCall.dir = "backward" /\ MOD(lastCall.k) \notin DOMAIN modules)
          /\ (lastCall.dir = "forward" /\ lastCall.result = "ok" =>
                 MOD(lastCall.k) \in DOMAIN modules)

\* A third call, a backward call, that found its function in a module the
\* first forward call loaded and the second forward call found cached.
C7_Witness ==
    /\ ncalls = 3
    /\ lastCall.dir = "backward" /\ lastCall.result = "ok"
    /\ Count(fwdOk, MOD(lastCall.k)) = 2
    /\ Count(loads, MOD(lastCall.k)) = 1
    /\ Cardinality(DOMAIN modules) = 1

(***************************************************************************)
(* Concurrent forward calls: each thread makes one forward call, and the   *)
(* has_func test, load_ptx and get_func of the calls interleave.  Each of  *)
(* the three is one step: the device guards its cache with a lock.         *)
(***************************************************************************)
Threads == 1..NumThreads
RaceKernels == {<<"eq", "f32">>, <<"conv2d", "f32">>, <<"choose", "f32">>}

\* if !self.dev.has_func(..)
HasFunc(t, k) ==
    /\ threads[t].pc = "idle"
    /\ threads' = [threads EXCEPT ![t] =
                      [pc |-> "checked", k |-> k, missing |-> NeedsLoad(modules, k)]]
    /\ UNCHANGED <<poolVars, auxVars, modules, loads, fwdOk, ncalls, lastCall>>

\* self.dev.load_ptx(..)?
LoadPtx(t, loadOk) ==
    /\ threads[t].pc = "checked"
    /\ threads[t].missing
    /\ IF loadOk
       THEN /\ modules' = load_ptx(modules, MOD(threads[t].k), LoadPtxFns(threads[t].k))
            /\ loads' = Bump(loads, MOD(threads[t].k))
            /\ threads' = [threads EXCEPT ![t].pc = "loaded"]
       ELSE /\ threads' = [threads EXCEPT ![t].pc = "err"]
            /\ UNCHANGED <<modules, loads>>
    /\ UNCHANGED <<poolVars, auxVars, fwdOk, ncalls, lastCall>>

\* self.dev.get_func(..).unwrap(), and the rest of the call.
GetFunc(t) ==
    /\ \/ threads[t].pc = "loaded"
       \/ threads[t].pc = "checked" /\ ~threads[t].missing
    /\ LET found == AllFound(modules, MOD(threads[t].k), FwdFns(threads[t].k))
       IN /\ threads' = [threads EXCEPT ![t].pc = IF found THEN "done" ELSE "panic"]
          /\ fwdOk' = IF found THEN Bump(fwdOk, MOD(threads[t].k)) ELSE fwdOk
    /\ UNCHANGED <<poolVars, auxVars, modules, loads, ncalls, lastCall>>

InitRace ==
    /\ InitIdleHost
    /\ modules = <<>> /\ loads = <<>> /\ fwdOk = <<>> /\ ncalls = 0 /\ lastCall = NoCall
    /\ threads = [t \in Threads |-> [pc |-> "idle", k |-> <<>>, missing |-> FALSE]]
    /\ opt = <<>> /\ stream = <<>> /\ touched = <<>>

NextRace ==
    \E t \in Threads :
        \/ \E k \in RaceKernels : HasFunc(t, k)
        \/ \E loadOk \in BOOLEAN : LoadPtx(t, loadOk)
        \/ GetFunc(t)

SpecRace == InitRace /\ [][NextRace]_vars

\* The threads that called kernel k and have got as far as pcs.
At(k, pcs) == {t \in Threads : threads[t].k = k /\ threads[t].pc \in pcs}

(***************************************************************************)
(* C8 as claimed.  When the threads have made their first forward call for *)
(* the same uncached kernel at the same time and completed, the module has *)
(* been loaded exactly once.                                               *)
(***************************************************************************)
C8_LoadedExactlyOnce ==
    \A k \in RaceKernels :
        At(k, {"done"}) = Threads => Count(loads, MOD(k)) = 1

(***************************************************************************)
(* C8 as amended.  First use is not protected: load_ptx runs once for      *)
(* every thread whose has_func test found the module missing, so a module  *)
(* is loaded as often as threads tested before the first load ended, at    *)
(* least once and at most once per thread; no call fails to find its       *)
(* function, and a completed call leaves the module cached.                *)
(***************************************************************************)
C8_LoadedOncePerMissingTest ==
    /\ \A t \in Threads : threads[t].pc # "panic"
    /\ \A k \in RaceKernels :
          /\ Count(loads, MOD(k))
               = Cardinality({t \in At(k, {"loaded", "done"}) : threads[t].missing})
          /\ Count(loads, MOD(k)) <= NumThreads
          /\ (At(k, {"done"}) # {} =>
                 /\ Count(loads, MOD(k)) >= 1
                 /\ AllFound(modules, MOD(k), FwdFns(k)))

\* Every thread has completed a forward call for the same kernel, and each
\* of them loaded the module.
C8_Witness ==
    \E k \in RaceKernels :
        /\ At(k, {"done"}) = Threads
        /\ Count(loads, MOD(k)) = NumThreads
        /\ Count(fwdOk, MOD(k)) = NumThreads

(***************************************************************************)
(* Conv2d backward on the accelerator: unfold grad_out into patches, two   *)
(* batched GEMMs, and the sum of the per-batch weight gradients.  Element  *)
(* values are integers here (nothing is divided).                          *)
(***************************************************************************)
Chans == {1, 2}

Conv2DOps ==
    [batch : Batches, chan_in : Chans, chan_out : Chans, kernel : 1..MaxKernel,
     h_in : Dims, w_in : Dims, h_out : Dims, w_out : {2},
     stride : Strides, padding : 0..MaxPad]

\* The device kernel unfold_output_into_patches: patches, of shape
\* (B, O, K, K, H, W), receive grad_out at the output position that kernel
\* position (k1, k2) maps input position (y, x) to, if there is one.
unfold_output_into_patches(o, image_out, patches) ==
    [i \in DOMAIN patches |->
        LET x == i % o.w_in
            y == (i \div o.w_in) % o.h_in
            k2 == (i \div (o.w_in * o.h_in)) % o.kernel
            k1 == (i \div (o.w_in * o.h_in * o.kernel)) % o.kernel
            co == (i \div (o.w_in * o.h_in * o.kernel * o.kernel)) % o.chan_out
            b == i \div (o.w_in * o.h_in * o.kernel * o.kernel * o.chan_out)
            oh == y + o.padding - k1
            ow == x + o.padding - k2
        IN IF /\ oh >= 0 /\ oh % o.stride = 0 /\ oh \div o.stride < o.h_out
              /\ ow >= 0 /\ ow % o.stride = 0 /\ ow \div o.stride < o.w_out
           THEN image_out[((b * o.chan_out + co) * o.h_out + oh \div o.stride) * o.w_out
                          + ow \div o.stride]
           ELSE patches[i]]

\* The device kernel transpose_and_broadcast_filters: filters (O, C, K, K),
\* read through their strides, into filters_tr of shape (B, C, O, K, K).
transpose_and_broadcast_filters(o, filters, strides, filters_tr) ==
    [i \in DOMAIN filters_tr |->
        LET k2 == i % o.kernel
            k1 == (i \div o.kernel) % o.kernel
            co == (i \div (o.kernel * o.kernel)) % o.chan_out
            c == (i \div (o.kernel * o.kernel * o.chan_out)) % o.chan_in
        IN filters[co * strides[1] + c * strides[2] + k1 * strides[3] + k2 * strides[4]]]

\* The device kernel sum_transposed_filters: every weight element gains the
\* sum of its copies in filters_tr (B, C, O, K, K) over the batch.
sum_transposed_filters(o, filters_tr, filters, strides) ==
    LET n == o.chan_in * o.chan_out * o.kernel * o.kernel
        W == (0..(o.chan_out - 1)) \X (0..(o.chan_in - 1))
               \X (0..(o.kernel - 1)) \X (0..(o.kernel - 1))
        NoStrides(e) == e[1] * strides[1] + e[2] * strides[2] + e[3] * strides[3]
                          + e[4] * strides[4]
        Tr(e) == ((e[2] * o.chan_out + e[1]) * o.kernel + e[3]) * o.kernel + e[4]
    IN [idx \in DOMAIN filters |->
          filters[idx]
            + Sum([e \in W |-> Sum([b \in 0..(o.batch - 1) |-> filters_tr[b * n + Tr(e)]],
                                   0..(o.batch - 1))],
                  {e \in W : NoStrides(e) = idx})]

RECURSIVE sgemm_batch_from(_, _, _, _, _, _, _, _, _)
\* Batched GEMM from batch b on: out = lhs * rhs + beta * out, every operand
\* read through its (batch, row, column) strides.
sgemm_batch_from(b, dims, lhs, ls, rhs, rs, beta, out, os) ==
    IF b = dims[1] THEN out
    ELSE LET m == dims[2]
             k == dims[3]
             n == dims[4]
             Cells == (0..(m - 1)) \X (0..(n - 1))
             Dot(e) == Sum([l \in 0..(k - 1) |->
                               lhs[b * ls[1] + e[1] * ls[2] + l * ls[3]]
                                 * rhs[b * rs[1] + l * rs[2] + e[2] * rs[3]]],
                           0..(k - 1))
             next == [idx \in DOMAIN out |->
                         LET hit == {e \in Cells : b * os[1] + e[1] * os[2] + e[2] * os[3] = idx}
                         IN IF hit = {} THEN out[idx]
                            ELSE beta * out[idx] + Dot(CHOOSE e \in hit : TRUE)]
         IN sgemm_batch_from(b + 1, dims, lhs, ls, rhs, rs, beta, next, os)

sgemm_batch(dims, lhs, ls, rhs, rs, beta, out, os) ==
    sgemm_batch_from(0, dims, lhs, ls, rhs, rs, beta, out, os)

\* Default::default(): the beta of an overwriting GEMM.
BetaZero == 0

\* <E>::ONE, the beta of the data-gradient GEMM.
BwdDataBeta == 1

\* <E>::ONE, the beta of the weight-gradient GEMM.
BwdWeightBeta == 1

\* Output strides that leave out the batch step.
WeightGemmOutStridesNoBatch(o) == <<0, o.chan_out * o.kernel * o.kernel, 1>>

\* [m * n, n, 1], the output strides of the weight-gradient GEMM.
WeightGemmOutStrides(o) ==
    <<o.chan_in * (o.chan_out * o.kernel * o.kernel), o.chan_out * o.kernel * o.kernel, 1>>

\* let filters_numel = op.batch * op.chan_in * op.chan_out * op.kernel * op.kernel
FiltersNumel(o) == o.batch * o.chan_in * o.chan_out * o.kernel * o.kernel

\* let patches_numel = op.batch * op.chan_out * op.kernel * op.kernel * op.h_in * op.w_in
PatchesNumel(o) == o.batch * o.chan_out * o.kernel * o.kernel * o.h_in * o.w_in

\* The element type the model runs conv2d with.
ConvKernel == <<"conv2d", "f32">>

\* Conv2DKernel::backward.  Its first get_func(..).unwrap() panics, before
\* any gradient is written, on a device where forward has not loaded the
\* module.
Conv2DBackward ==
    /\ kind = "conv2d"
    /\ calls < MaxCalls
    /\ last # "panic"
    /\ IF ~AllFound(modules, MOD(ConvKernel), BwdFns(ConvKernel))
       THEN /\ last' = "panic"
            /\ UNCHANGED <<heap, stor, pre, calls>>
       ELSE
       LET patches == unfold_output_into_patches(op, Buf(heap, stor, "grad_out"),
                                                 Zeros(PatchesNumel(op)))
           f_strides == stor["rhs"].strides
           f_b1023 == transpose_and_broadcast_filters(op, Buf(heap, stor, "rhs"), f_strides,
                                                      Zeros(FiltersNumel(op)))
           m == op.chan_in
           k1 == op.chan_out * op.kernel * op.kernel
           n1 == op.h_in * op.w_in
           w1 == Written(heap, stor, "grad_lhs",
                         sgemm_batch(<<op.batch, m, k1, n1>>,
                                     f_b1023, <<m * k1, k1, 1>>,
                                     patches, <<k1 * n1, n1, 1>>,
                                     BwdDataBeta,
                                     Buf(heap, stor, "grad_lhs"), <<m * n1, n1, 1>>))
           k2 == op.h_in * op.w_in
           n2 == op.chan_out * op.kernel * op.kernel
           grad_f_b1023 == sgemm_batch(<<op.batch, m, k2, n2>>,
                                       Buf(heap, stor, "lhs"), <<m * k2, k2, 1>>,
                                       patches, <<k2 * n2, 1, k2>>,
                                       BwdWeightBeta,
                                       Zeros(FiltersNumel(op)), WeightGemmOutStrides(op))
           w2 == Written(w1.heap, w1.stor, "grad_rhs",
                         sum_transposed_filters(op, grad_f_b1023,
                                                Buf(w1.heap, w1.stor, "grad_rhs"), f_strides))
       IN /\ heap' = w2.heap
          /\ stor' = w2.stor
          /\ pre' = [grad_lhs |-> Buf(heap, stor, "grad_lhs"),
                     grad_rhs |-> Buf(heap, stor, "grad_rhs"),
                     grad_f_b1023 |-> grad_f_b1023]
          /\ last' = "backward"
          /\ calls' = calls + 1
    /\ UNCHANGED <<op, kind, seen, devVars, auxVars>>

LhsShape(o) == <<o.batch, o.chan_in, o.h_in, o.w_in>>
RhsShape(o) == <<o.chan_out, o.chan_in, o.kernel, o.kernel>>
ConvOutShape(o) == <<o.batch, o.chan_out, o.h_out, o.w_out>>

ConvSeeds == [0..1 -> Vals]

\* The device before backward: either no call has loaded the module, or a
\* forward call has.
InitConv ==
    /\ loads = <<>> /\ fwdOk = <<>> /\ ncalls = 0 /\ lastCall = NoCall
    /\ threads = <<>> /\ opt = <<>> /\ stream = <<>> /\ touched = <<>>
    /\ modules \in {<<>>, load_ptx(<<>>, MOD(ConvKernel), LoadPtxFns(ConvKernel))}
    /\ op \in Conv2DOps
    /\ kind = "conv2d"
    /\ \E seed \in ConvSeeds :
          heap = (0 :> [i \in 0..(NumElements(LhsShape(op)) - 1) |-> seed[i % 2] + i \div 2])
                 @@ (1 :> [i \in 0..(NumElements(RhsShape(op)) - 1) |-> (i % 3) - 1])
                 @@ (2 :> [i \in 0..(NumElements(LhsShape(op)) - 1) |-> i % 2])
                 @@ (3 :> [i \in 0..(NumElements(RhsShape(op)) - 1) |-> (i + 1) % 2])
                 @@ (4 :> [i \in 0..(NumElements(ConvOutShape(op)) - 1) |-> i + 1])
    /\ stor = ("lhs" :> [data |-> 0, strides |-> DefaultStrides(LhsShape(op))])
              @@ ("rhs" :> [data |-> 1, strides |-> DefaultStrides(RhsShape(op))])
              @@ ("grad_lhs" :> [data |-> 2, strides |-> DefaultStrides(LhsShape(op))])
              @@ ("grad_rhs" :> [data |-> 3, strides |-> DefaultStrides(RhsShape(op))])
              @@ ("grad_out" :> [data |-> 4, strides |-> DefaultStrides(ConvOutShape(op))])
    /\ calls = 0
    /\ last = "init"
    /\ pre = <<>>
    /\ seen = <<>>

NextConv == Conv2DBackward

SpecConv == InitConv /\ [][NextConv]_vars

(***************************************************************************)
(* The gradients of a direct convolution                                   *)
(*   out[b,o,oh,ow] = SUM c,k1,k2 : w[o,c,k1,k2] * x[b,c,oh*s+k1-p,ow*s+k2-p]*)
(* with respect to x and w, for the upstream gradient grad_out.            *)
(***************************************************************************)
LhsCoords(o) == (0..(o.batch - 1)) \X (0..(o.chan_in - 1)) \X (0..(o.h_in - 1)) \X (0..(o.w_in - 1))
RhsCoords(o) == (0..(o.chan_out - 1)) \X (0..(o.chan_in - 1)) \X (0..(o.kernel - 1)) \X (0..(o.kernel - 1))
ConvOutCoords(o) == (0..(o.batch - 1)) \X (0..(o.chan_out - 1)) \X (0..(o.h_out - 1)) \X (0..(o.w_out - 1))

LhsAt(c) == Buf(heap, stor, "lhs")[Flat(LhsShape(op), c)]
RhsAt(e) == Buf(heap, stor, "rhs")[Flat(RhsShape(op), e)]
ConvGradOutAt(w) == Buf(heap, stor, "grad_out")[Flat(ConvOutShape(op), w)]

\* The (output position, kernel position) pairs that read input coordinate c
\* of batch element c[1] for output channel co.
Taps(co, c) ==
    {t \in (0..(op.h_out - 1)) \X (0..(op.w_out - 1)) \X (0..(op.kernel - 1)) \X (0..(op.kernel - 1)) :
        /\ t[1] * op.stride + t[3] - op.padding = c[3]
        /\ t[2] * op.stride + t[4] - op.padding = c[4]}

DataGrad(c) ==
    Sum([co \in 0..(op.chan_out - 1) |->
            Sum([t \in Taps(co, c) |->
                    RhsAt(<<co, c[2], t[3], t[4]>>) * ConvGradOutAt(<<c[1], co, t[1], t[2]>>)],
                Taps(co, c))],
        0..(op.chan_out - 1))

\* The output positions whose kernel position (e[3], e[4]) is inside the input.
Reads(e) ==
    {w \in (0..(op.h_out - 1)) \X (0..(op.w_out - 1)) :
        /\ w[1] * op.stride + e[3] - op.padding \in 0..(op.h_in - 1)
        /\ w[2] * op.stride + e[4] - op.padding \in 0..(op.w_in - 1)}

\* The weight gradient of batch element b alone.
BatchWeightGrad(b, e) ==
    Sum([w \in Reads(e) |->
            LhsAt(<<b, e[2], w[1] * op.stride + e[3] - op.padding,
                    w[2] * op.stride + e[4] - op.padding>>)
              * ConvGradOutAt(<<b, e[1], w[1], w[2]>>)],
        Reads(e))

WeightGrad(e) ==
    Sum([b \in 0..(op.batch - 1) |-> BatchWeightGrad(b, e)], 0..(op.batch - 1))

\* The copy of weight element e for batch element b in grad_f_b1023, a
\* buffer of shape (B, C, O, K, K).
CopyAt(b, e) ==
    pre.grad_f_b1023[(((b * op.chan_in + e[2]) * op.chan_out + e[1]) * op.kernel + e[3])
                        * op.kernel + e[4]]

(***************************************************************************)
(* C9.  Conv2d backward accumulates: after the call grad_lhs holds what it *)
(* held before plus the data gradient, and grad_rhs what it held before    *)
(* plus the weight gradient; both gradient GEMMs run with beta = 1.        *)
(***************************************************************************)
C9_ConvBackwardAccumulates ==
    (kind = "conv2d" /\ last = "backward") =>
        /\ \A c \in LhsCoords(op) :
              Buf(heap, stor, "grad_lhs")[Flat(LhsShape(op), c)]
                = pre.grad_lhs[Flat(LhsShape(op), c)] + DataGrad(c)
        /\ \A e \in RhsCoords(op) :
              Buf(heap, stor, "grad_rhs")[Flat(RhsShape(op), e)]
                = pre.grad_rhs[Flat(RhsShape(op), e)] + WeightGrad(e)
        /\ BwdDataBeta = 1
        /\ BwdWeightBeta = 1

\* A second backward call on gradient buffers with non-zero contents, with
\* a non-zero data gradient and a non-zero weight gradient.
C9_Witness ==
    /\ kind = "conv2d" /\ last = "backward" /\ calls = 2
    /\ \E c \in LhsCoords(op) :
          pre.grad_lhs[Flat(LhsShape(op), c)] # 0 /\ DataGrad(c) # 0
    /\ \E e \in RhsCoords(op) :
          pre.grad_rhs[Flat(RhsShape(op), e)] # 0 /\ WeightGrad(e) # 0

(***************************************************************************)
(* C10.  Conv2d weight gradient: backward computes, in a zeroed buffer of  *)
(* batch * chan_in * chan_out * kernel * kernel elements, one copy of the  *)
(* weight gradient per batch element, and grad_rhs gains, for each weight  *)
(* element, the sum of its copies, each batch element counted once.        *)
(***************************************************************************)
C10_WeightGradSummedOverBatch ==
    (kind = "conv2d" /\ last = "backward") =>
        /\ DOMAIN pre.grad_f_b1023
             = 0..(op.batch * op.chan_in * op.chan_out * op.kernel * op.kernel - 1)
        /\ \A b \in 0..(op.batch - 1), e \in RhsCoords(op) :
              CopyAt(b, e) = BatchWeightGrad(b, e)
        /\ \A e \in RhsCoords(op) :
              Buf(heap, stor, "grad_rhs")[Flat(RhsShape(op), e)]
                  - pre.grad_rhs[Flat(RhsShape(op), e)]
                = Sum([b \in 0..(op.batch - 1) |-> CopyAt(b, e)], 0..(op.batch - 1))

\* A second backward call over two batch elements whose copies of one
\* weight element are non-zero and differ.
C10_Witness ==
    /\ kind = "conv2d" /\ last = "backward" /\ calls = 2
    /\ op.batch = 2
    /\ \E e \in RhsCoords(op) :
          /\ CopyAt(0, e) # 0 /\ CopyAt(1, e) # 0 /\ CopyAt(0, e) # CopyAt(1, e)
          /\ Buf(heap, stor, "grad_rhs")[Flat(RhsShape(op), e)]
               = pre.grad_rhs[Flat(RhsShape(op), e)] + CopyAt(0, e) + CopyAt(1, e)

(***************************************************************************)
(* The RMSprop update kernel on the host.                                  *)
(*                                                                         *)
(* Numbers.  An element of type F is a rational <<n, d>> in lowest terms.  *)
(* Addition, subtraction and multiplication are exact; division and the    *)
(* square root, whose results a float cannot hold in general, round to the *)
(* grid of multiples of 1/Grid.  NaN and the infinities are not modelled:  *)
(* eps is positive in every configuration, so no divisor is zero.          *)
(***************************************************************************)
MaxUpdates == 2

\* The resolution of rounded results.
Grid == 64

Abs(n) == IF n < 0 THEN 0 - n ELSE n

RECURSIVE GCD(_, _)
GCD(a, b) == IF b = 0 THEN a ELSE GCD(b, a % b)

\* The rational n/d, d # 0, in lowest terms with a positive denominator.
Q(n, d) ==
    LET g == GCD(Abs(n), Abs(d))
    IN IF d < 0 THEN <<(0 - n) \div g, (0 - d) \div g>> ELSE <<n \div g, d \div g>>

LCM(a, b) == (a \div GCD(a, b)) * b
Add(a, b) ==
    LET l == LCM(a[2], b[2]) IN Q(a[1] * (l \div a[2]) + b[1] * (l \div b[2]), l)
Neg(a) == <<0 - a[1], a[2]>>
Sub(a, b) == Add(a, Neg(b))
Mul(a, b) ==
    LET g1 == GCD(Abs(a[1]), b[2])
        g2 == GCD(Abs(b[1]), a[2])
    IN Q((a[1] \div g1) * (b[1] \div g2), (a[2] \div g2) * (b[2] \div g1))
Less(a, b) == Sub(a, b)[1] < 0
LessEq(a, b) == Sub(a, b)[1] <= 0

\* F::one()
One == <<1, 1>>

\* f32::powi(2)
powi2(a) == Mul(a, a)

RECURSIVE FloorTimes(_, _, _)
\* floor(r * m / d) for 0 <= r < d, m a power of two, by long division.
FloorTimes(r, d, m) ==
    IF m = 1 THEN 0
    ELSE ((2 * r) \div d) * (m \div 2) + FloorTimes((2 * r) % d, d, m \div 2)

\* floor(a * m) for a rational a and a power of two m.
FloorScaled(a, m) == (a[1] \div a[2]) * m + FloorTimes(a[1] % a[2], a[2], m)

\* The quotient a / b, rounded down to the grid.
Div(a, b) == Q(FloorScaled(Mul(a, <<b[2], b[1]>>), Grid), Grid)

RECURSIVE CeilRoot(_, _, _)
\* The least k in lo..hi with k * k >= n (hi * hi >= n).
CeilRoot(n, lo, hi) ==
    IF lo = hi THEN lo
    ELSE LET mid == (lo + hi) \div 2
         IN IF mid * mid >= n THEN CeilRoot(n, lo, mid) ELSE CeilRoot(n, mid + 1, hi)

\* F::sqrt of a >= 0, rounded up to the grid: the least k/Grid whose square
\* is at least a.
sqrt(a) ==
    LET whole == FloorScaled(a, Grid * Grid)
        n == IF Q(whole, Grid * Grid) = a THEN whole ELSE whole + 1
    IN Q(CeilRoot(n, 0, 32768), Grid)

Min(a, b) == IF a < b THEN a ELSE b

\* WeightDecay::L2(wd), WeightDecay::Decoupled(wd)
L2(wd) == <<"L2", wd>>
Decoupled(wd) == <<"Decoupled", wd>>

\* `if let Some(WeightDecay::L2(wd)) = cfg.weight_decay`
IsL2(cfg) == cfg.weight_decay # None /\ cfg.weight_decay[1][1] = "L2"
IsDecoupled(cfg) == cfg.weight_decay # None /\ cfg.weight_decay[1][1] = "Decoupled"
Wd(cfg) == cfg.weight_decay[1][2]

\* `g += wd * *p` with the term left out.
DecayedGradRaw(cfg, p, g) == g

\* `if let Some(WeightDecay::L2(wd)) = cfg.weight_decay { g += wd * *p; }`
DecayedGrad(cfg, p, g) == IF IsL2(cfg) THEN Add(g, Mul(Wd(cfg), p)) ELSE g

\* `*s_avg = (F::one() - cfg.alpha) * (g * g)`: the running average lost.
SquareAvgNoDecay(cfg, s_avg, g) == Mul(Sub(One, cfg.alpha), Mul(g, g))

\* `*s_avg += (F::one() - cfg.alpha) * (g * g - *s_avg)`
SquareAvg(cfg, s_avg, g) ==
    Add(s_avg, Mul(Sub(One, cfg.alpha), Sub(Mul(g, g), s_avg)))

\* `*g_avg = g`: the running mean replaced by the gradient.
GradAvgWhole(cfg, g_avg, g) == IF cfg.centered THEN g ELSE g_avg

\* `*g_avg += (F::one() - cfg.alpha) * (g - *g_avg)` when centered
GradAvg(cfg, g_avg, g) ==
    IF cfg.centered THEN Add(g_avg, Mul(Sub(One, cfg.alpha), Sub(g, g_avg))) ELSE g_avg

\* `s_avg.sqrt() + cfg.eps`: eps outside the square root.
AvgEpsOutside(cfg, s_avg, g_avg) ==
    IF cfg.centered
    THEN Add(sqrt(Sub(s_avg, powi2(g_avg))), cfg.eps)
    ELSE Add(sqrt(s_avg), cfg.eps)

\* `let avg = if cfg.centered { .. } else { .. }`, from the updated averages.
Avg(cfg, s_avg, g_avg) ==
    IF cfg.centered
    THEN sqrt(Add(Sub(s_avg, powi2(g_avg)), cfg.eps))
    ELSE sqrt(Add(s_avg, cfg.eps))

\* `*m = *m * u + g` on both arms of the match, u = 0 without momentum.
MomentumAlways(cfg, m, g) ==
    IF cfg.momentum # None THEN Add(Mul(m, cfg.momentum[1]), g) ELSE g

\* `match cfg.momentum { Some(u) => *m = *m * u + g, None => () }`
Momentum(cfg, m, g) ==
    IF cfg.momentum # None THEN Add(Mul(m, cfg.momentum[1]), g) ELSE m

\* `Some(u) => g = *m * cfg.lr, None => g *= cfg.lr`, m the updated buffer.
Scaled(cfg, m, g) ==
    IF cfg.momentum # None THEN Mul(m, cfg.lr) ELSE Mul(g, cfg.lr)

\* Decoupled decay taken from the parameter after the step.
DecoupledStepAfter(cfg, p, g) ==
    IF IsDecoupled(cfg)
    THEN Add(g, Mul(Mul(Wd(cfg), cfg.lr), Sub(p, g)))
    ELSE g

\* `if let Some(WeightDecay::Decoupled(wd)) = cfg.weight_decay { g += wd * cfg.lr * *p; }`
DecoupledStep(cfg, p, g) ==
    IF IsDecoupled(cfg) THEN Add(g, Mul(Mul(Wd(cfg), cfg.lr), p)) ELSE g

\* The body of the loop for one element: the new p, s_avg, g_avg and m.
UpdateElement(cfg, p, g0, s_avg, g_avg, m) ==
    LET g1 == DecayedGrad(cfg, p, g0)
        s1 == SquareAvg(cfg, s_avg, g1)
        ga1 == GradAvg(cfg, g_avg, g1)
        avg == Avg(cfg, s1, ga1)
        g2 == Div(g1, avg)
        m1 == Momentum(cfg, m, g2)
        g3 == Scaled(cfg, m1, g2)
        g4 == DecoupledStep(cfg, p, g3)
    IN [p |-> Sub(p, g4), s_avg |-> s1, g_avg |-> ga1, m |-> m1]

\* What is handed to sqrt: `*s_avg - g_avg.powi(2) + cfg.eps` when centered,
\* `*s_avg + cfg.eps` otherwise, from the updated averages.
Radicand(cfg, s_avg, g_avg) ==
    IF cfg.centered THEN Add(Sub(s_avg, powi2(g_avg)), cfg.eps) ELSE Add(s_avg, cfg.eps)

\* The radicand of one element of the loop.
ElementRadicand(cfg, p, g0, s_avg, g_avg) ==
    LET g1 == DecayedGrad(cfg, p, g0)
    IN Radicand(cfg, SquareAvg(cfg, s_avg, g1), GradAvg(cfg, g_avg, g1))

\* The number of elements the zipped iterators yield: the shortest buffer.
ZipLen(a) ==
    Min(Min(Len(a.param.data), Len(a.grad.data)),
        Min(Len(a.square_avg.data), Min(Len(a.grad_avg.data), Len(a.momentum.data))))

\* The three debug_assert_eq! hold.
DebugAssertsHold(param, grad) ==
    /\ Len(param.data) = Len(grad.data)
    /\ param.shape = grad.shape
    /\ param.strides = grad.strides

\* buf_iter / buf_iter_mut zipped: element i of the shortest prefix is
\* updated from element i of every buffer; the rest is left as it is.
UpdatedArrays(a, grad) ==
    LET b == [a EXCEPT !.grad = grad]
        n == ZipLen(b)
        e(i) == UpdateElement(a.cfg, a.param.data[i], grad.data[i], a.square_avg.data[i],
                              a.grad_avg.data[i], a.momentum.data[i])
        New(arr, f) == [arr EXCEPT !.data = [i \in 1..Len(arr.data) |->
                                                IF i <= n THEN e(i)[f] ELSE arr.data[i]]]
    IN [param |-> New(a.param, "p"), square_avg |-> New(a.square_avg, "s_avg"),
        grad_avg |-> New(a.grad_avg, "g_avg"), momentum |-> New(a.momentum, "m")]

\* The buffers of the optimizer, as a record.
Buffers(a) ==
    [param |-> a.param, square_avg |-> a.square_avg, grad_avg |-> a.grad_avg,
     momentum |-> a.momentum]

\* The averages alone after the loop, for an update in which sqrt is
\* handed a negative number.
AveragesOnly(a, grad) ==
    LET n == ZipLen([a EXCEPT !.grad = grad])
        g1(i) == DecayedGrad(a.cfg, a.param.data[i], grad.data[i])
    IN [square_avg |-> [a.square_avg EXCEPT !.data =
                           [i \in 1..Len(a.square_avg.data) |->
                               IF i <= n THEN SquareAvg(a.cfg, a.square_avg.data[i], g1(i))
                               ELSE a.square_avg.data[i]]],
        grad_avg |-> [a.grad_avg EXCEPT !.data =
                         [i \in 1..Len(a.grad_avg.data) |->
                             IF i <= n THEN GradAvg(a.cfg, a.grad_avg.data[i], g1(i))
                             ELSE a.grad_avg.data[i]]]]

\* Some element of the loop hands sqrt a negative number.
NegativeRadicand(a, grad) ==
    \E i \in 1..ZipLen([a EXCEPT !.grad = grad]) :
        Less(ElementRadicand(a.cfg, a.param.data[i], grad.data[i], a.square_avg.data[i],
                             a.grad_avg.data[i]), Q(0, 1))

\* RMSpropKernel::update.  In a build with debug assertions a mismatch of
\* length, shape or strides panics before the loop; in a build without, the
\* assertions are compiled out and the loop runs over the zipped iterators.
\* sqrt of a negative number is NaN, and so is the parameter from then on:
\* the result "NaN" stands for it, and no further update is followed.
Update(grad) ==
    /\ kind = "rmsprop"
    /\ opt.steps < MaxUpdates
    /\ opt.result \notin {"panic", "NaN"}
    /\ IF opt.debug_assertions /\ ~DebugAssertsHold(opt.param, grad)
       THEN opt' = [opt EXCEPT !.result = "panic", !.grad = grad, !.prev = Buffers(opt),
                               !.steps = @ + 1]
       ELSE IF NegativeRadicand(opt, grad)
       THEN opt' = [opt EXCEPT !.square_avg = AveragesOnly(opt, grad).square_avg,
                               !.grad_avg = AveragesOnly(opt, grad).grad_avg,
                               !.grad = grad, !.prev = Buffers(opt),
                               !.result = "NaN", !.steps = @ + 1]
       ELSE LET new == UpdatedArrays(opt, grad)
            IN opt' = [opt EXCEPT !.param = new.param, !.square_avg = new.square_avg,
                                  !.grad_avg = new.grad_avg, !.momentum = new.momentum,
                                  !.grad = grad, !.prev = Buffers(opt),
                                  !.result = "Ok", !.steps = @ + 1]
    /\ UNCHANGED <<poolVars, devVars, stream, touched>>

\* A StridedArray of one dimension.
Array(data, n, stride) == [data |-> data, shape |-> <<n>>, strides |-> <<stride>>]

Lens == {1, 2}
GradVals == {Q(0 - 1, 1), Q(4, 1)}

\* The gradients update may be handed for a parameter: of the parameter's
\* shape or, where the dimension is not a compile-time constant, of another,
\* contiguous or broadcast from one element (stride 0).
Grads ==
    UNION {{Array(d, n, 1) : d \in [1..n -> GradVals]} : n \in Lens}
      \cup UNION {{Array(d, n, 0) : d \in [1..1 -> GradVals]} : n \in Lens}

\* The configuration of the numerical example of the documentation.
ExampleCfg ==
    [lr |-> Q(1, 100), alpha |-> Q(9, 10), eps |-> Q(1, 100000000), centered |-> FALSE,
     momentum |-> None, weight_decay |-> None]

RMSpropConfigs ==
    {ExampleCfg}
      \cup [lr : {Q(1, 2)}, alpha : {Q(1, 2)}, eps : {Q(1, 4), Q(1, 1)}, centered : BOOLEAN,
            momentum : {None, Some(Q(1, 2))},
            weight_decay : {None, Some(L2(Q(1, 2))), Some(Decoupled(Q(1, 2)))}]

\* The parameter before the first update: 2.0, -1/2.
ParamData(n) == [i \in 1..n |-> IF i = 1 THEN Q(2, 1) ELSE Q(0 - 1, 2)]
ZeroData(n) == [i \in 1..n |-> Q(0, 1)]

\* The optimizer before the first update: the state buffers are zeros of
\* the parameter's shape.
InitRms ==
    /\ op = <<>> /\ kind = "rmsprop" /\ heap = <<>> /\ stor = <<>>
    /\ calls = 0 /\ last = "init" /\ pre = <<>> /\ seen = <<>>
    /\ modules = <<>> /\ loads = <<>> /\ fwdOk = <<>> /\ ncalls = 0 /\ lastCall = NoCall
    /\ threads = <<>> /\ stream = <<>> /\ touched = <<>>
    /\ \E cfg \in RMSpropConfigs, n \in Lens, dbg \in BOOLEAN :
          opt = [cfg |-> cfg, debug_assertions |-> dbg,
                 param |-> Array(ParamData(n), n, 1),
                 square_avg |-> Array(ZeroData(n), n, 1),
                 grad_avg |-> Array(ZeroData(n), n, 1),
                 momentum |-> Array(ZeroData(n), n, 1),
                 grad |-> Array(<<>>, n, 1), prev |-> <<>>, result |-> "none", steps |-> 0]

NextRms == \E grad \in Grads : Update(grad)

SpecRms == InitRms /\ [][NextRms]_vars

\* The elements the last update reached: the common prefix of the
\* parameter and the gradient.
Reached == 1..Min(Len(opt.prev.param.data), Len(opt.grad.data))

\* The last call was an update that returned Ok.
Updated == kind = "rmsprop" /\ opt.result = "Ok"

\* The gradient the averages of element i were updated with: the raw
\* gradient, plus wd * param under L2 weight decay.
EffectiveGrad(i) ==
    IF IsL2(opt.cfg)
    THEN Add(opt.grad.data[i], Mul(Wd(opt.cfg), opt.prev.param.data[i]))
    ELSE opt.grad.data[i]

\* No momentum, no weight decay, not centered.
Plain(cfg) == ~cfg.centered /\ cfg.momentum = None /\ cfg.weight_decay = None

\* |a - b| <= tol
Close(a, b, tol) == LessEq(Sub(a, b), tol) /\ LessEq(Sub(b, a), tol)

(***************************************************************************)
(* C11.  RMSprop, plain configuration.  After an update, for every element *)
(* reached, square_avg' = alpha * square_avg + (1 - alpha) * g^2 and       *)
(* param' = param - lr * g / sqrt(square_avg' + eps), eps inside the root. *)
(* With alpha = 0.9, eps = 1e-8, lr = 0.01, param = 2, grad = 4 and        *)
(* square_avg = 0: square_avg' = 1.6 and param' is 1.9684 to four places.  *)
(***************************************************************************)
C11_PlainUpdate ==
    Updated =>
        /\ \A i \in Reached :
              /\ opt.cfg.weight_decay = None =>
                    opt.square_avg.data[i]
                      = Add(Mul(opt.cfg.alpha, opt.prev.square_avg.data[i]),
                            Mul(Sub(One, opt.cfg.alpha),
                                Mul(opt.grad.data[i], opt.grad.data[i])))
              /\ Plain(opt.cfg) =>
                    opt.param.data[i]
                      = Sub(opt.prev.param.data[i],
                            Mul(opt.cfg.lr,
                                Div(opt.grad.data[i],
                                    sqrt(Add(opt.square_avg.data[i], opt.cfg.eps)))))
        /\ (/\ opt.cfg = ExampleCfg
            /\ opt.prev.param.data[1] = Q(2, 1)
            /\ opt.grad.data[1] = Q(4, 1)
            /\ opt.prev.square_avg.data[1] = Q(0, 1)) =>
              /\ opt.square_avg.data[1] = Q(16, 10)
              /\ Close(opt.param.data[1], Q(19684, 10000), Q(1, 10000))

\* The example: one update of param = 2 with grad = 4 from square_avg = 0.
C11_Witness ==
    /\ Updated
    /\ opt.cfg = ExampleCfg
    /\ opt.steps = 1
    /\ opt.prev.param.data[1] = Q(2, 1)
    /\ opt.grad.data[1] = Q(4, 1)
    /\ opt.square_avg.data[1] = Q(8, 5)
    /\ Less(opt.param.data[1], Q(2, 1))

\* The running averages the claim gives for element i, from the state
\* before the update and the effective gradient.
ExpectedSquareAvg(i) ==
    Add(Mul(opt.cfg.alpha, opt.prev.square_avg.data[i]),
        Mul(Sub(One, opt.cfg.alpha), Mul(EffectiveGrad(i), EffectiveGrad(i))))
ExpectedGradAvg(i) ==
    IF opt.cfg.centered
    THEN Add(Mul(opt.cfg.alpha, opt.prev.grad_avg.data[i]),
             Mul(Sub(One, opt.cfg.alpha), EffectiveGrad(i)))
    ELSE opt.prev.grad_avg.data[i]

\* The effective gradient over the root of the (centered) average and eps.
Normalised(i) ==
    Div(EffectiveGrad(i),
        sqrt(Add(IF opt.cfg.centered
                 THEN Sub(ExpectedSquareAvg(i), Mul(ExpectedGradAvg(i), ExpectedGradAvg(i)))
                 ELSE ExpectedSquareAvg(i),
                 opt.cfg.eps)))

\* The step before decoupled decay: lr times the normalised gradient, or
\* lr times the momentum buffer the normalised gradient was folded into.
NormalisedStep(i) ==
    IF opt.cfg.momentum # None
    THEN Mul(opt.cfg.lr,
             Add(Mul(opt.cfg.momentum[1], opt.prev.momentum.data[i]), Normalised(i)))
    ELSE Mul(opt.cfg.lr, Normalised(i))

\* wd * lr * param, param from before the step, under decoupled decay.
DecoupledTerm(i) ==
    IF IsDecoupled(opt.cfg)
    THEN Mul(Mul(Wd(opt.cfg), opt.cfg.lr), opt.prev.param.data[i])
    ELSE Q(0, 1)

(***************************************************************************)
(* C12.  RMSprop weight decay.  Under L2(wd) the gradient that enters      *)
(* square_avg, grad_avg, the normalisation and the momentum is             *)
(* grad + wd * param; under Decoupled(wd) it is the raw gradient, and      *)
(* wd * lr * param, with param from before the step, is added to the step  *)
(* after the normalised, momentum-scaled step is computed.                 *)
(***************************************************************************)
C12_WeightDecay ==
    Updated =>
        \A i \in Reached :
            /\ opt.square_avg.data[i] = ExpectedSquareAvg(i)
            /\ opt.grad_avg.data[i] = ExpectedGradAvg(i)
            /\ opt.cfg.momentum # None =>
                  opt.momentum.data[i]
                    = Add(Mul(opt.cfg.momentum[1], opt.prev.momentum.data[i]), Normalised(i))
            /\ opt.param.data[i]
                 = Sub(Sub(opt.prev.param.data[i], NormalisedStep(i)), DecoupledTerm(i))

\* A second update under decoupled decay with momentum, whose decay term
\* is not zero and would differ if taken from the parameter after the step.
C12_Witness ==
    /\ Updated
    /\ opt.steps = 2
    /\ IsDecoupled(opt.cfg)
    /\ opt.cfg.momentum # None
    /\ \E i \in Reached :
          /\ DecoupledTerm(i) # Q(0, 1)
          /\ NormalisedStep(i) # Q(0, 1)
          /\ opt.prev.momentum.data[i] # Q(0, 1)

(***************************************************************************)
(* C13.  A mismatch of length, shape or strides between the parameter and  *)
(* the gradient handed to update fails fast: the call does not return Ok   *)
(* and no element of the parameter or of the state buffers is changed.     *)
(***************************************************************************)
C13_MismatchFailsFast ==
    (/\ kind = "rmsprop"
     /\ opt.steps > 0
     /\ ~DebugAssertsHold(opt.prev.param, opt.grad)) =>
        /\ opt.result # "Ok"
        /\ Buffers(opt) = opt.prev

(***************************************************************************)
(* The optimizer update as the training example drives it: gradients are   *)
(* extracted, handed to Sgd::update, and the result is unwrapped with      *)
(* expect.  Sgd::update itself is described by the specification: every    *)
(* tracked parameter's gradient is looked up; a parameter with a gradient  *)
(* is updated, one without is reported as unused.                          *)
(***************************************************************************)
NumParams == 2

\* The updates main makes after the first: `for i in 0..5`.
LoopUpdates == 5

\* The parameters the optimizer tracks.
ParamIds == 1..NumParams

\* SgdConfig { lr: 1e-1, momentum: Some(Momentum::Nesterov(0.9)), weight_decay: None }
SgdCfg == [lr |-> Q(1, 10), momentum |-> Some(<<"Nesterov", Q(9, 10)>>), weight_decay |-> None]

\* The Nesterov step for one parameter: v = g + mu * v; p -= lr * (g + mu * v).
SgdElement(cfg, pv, g) ==
    LET mu == cfg.momentum[1][2]
        v == Add(g, Mul(mu, pv.v))
    IN [p |-> Sub(pv.p, Mul(cfg.lr, Add(g, Mul(mu, v)))), v |-> v]

\* Sgd::update that skips a parameter without gradient and returns Ok.
SgdUpdateSkipping(cfg, params, gradients) ==
    [params |-> [id \in DOMAIN params |->
                    IF id \in DOMAIN gradients
                    THEN SgdElement(cfg, params[id], gradients[id]) ELSE params[id]],
     result |-> <<"Ok">>]

\* Sgd::update: Err(UnusedParams) names every tracked parameter the
\* gradient map has no entry for.
SgdUpdate(cfg, params, gradients) ==
    LET unused == DOMAIN params \ DOMAIN gradients
    IN [params |-> [id \in DOMAIN params |->
                       IF id \in DOMAIN gradients
                       THEN SgdElement(cfg, params[id], gradients[id]) ELSE params[id]],
        result |-> IF unused = {} THEN <<"Ok">> ELSE <<"Err", unused>>]

\* Result::expect that drops an Err.
ExpectIgnoring(result) == "running"

\* Result::expect: panics with the message on Err.
Expect(result) == IF result[1] = "Ok" THEN "running" ELSE "panicked"

\* `let gradients = loss.backward();`: a gradient for the parameters the
\* loss depends on.
LossBackward(gradients) ==
    /\ kind = "optim"
    /\ opt.pc = "running"
    /\ opt.gradients = None
    /\ opt.updates <= LoopUpdates
    /\ opt' = [opt EXCEPT !.gradients = Some(gradients)]
    /\ UNCHANGED <<poolVars, devVars, stream, touched>>

\* `sgd.update(&mut mlp, gradients).expect("Oops, there were some unused params");`
MainUpdate ==
    /\ kind = "optim"
    /\ opt.pc = "running"
    /\ opt.gradients # None
    /\ LET r == SgdUpdate(opt.cfg, opt.params, opt.gradients[1])
       IN opt' = [opt EXCEPT !.params = r.params, !.result = r.result,
                             !.given = opt.gradients[1], !.prev = opt.params,
                             !.gradients = None,
                             !.pc = Expect(r.result), !.updates = @ + 1]
    /\ UNCHANGED <<poolVars, devVars, stream, touched>>

\* The gradient maps backward can produce: one value for the parameters of
\* any subset.
GradientMaps == UNION {[S -> {g}] : S \in SUBSET ParamIds, g \in GradVals}

InitOptim ==
    /\ op = <<>> /\ kind = "optim" /\ heap = <<>> /\ stor = <<>>
    /\ calls = 0 /\ last = "init" /\ pre = <<>> /\ seen = <<>>
    /\ modules = <<>> /\ loads = <<>> /\ fwdOk = <<>> /\ ncalls = 0 /\ lastCall = NoCall
    /\ threads = <<>> /\ stream = <<>> /\ touched = <<>>
    /\ opt = [cfg |-> SgdCfg, pc |-> "running", updates |-> 0,
              params |-> [id \in ParamIds |-> [p |-> Q(id, 1), v |-> Q(0, 1)]],
              prev |-> <<>>, gradients |-> None, given |-> <<>>, result |-> <<"none">>]

NextOptim ==
    \/ \E gradients \in GradientMaps : LossBackward(gradients)
    \/ MainUpdate

SpecOptim == InitOptim /\ [][NextOptim]_vars

MaxDim == 3

RECURSIVE Prod(_)
Prod(d) == IF d = <<>> THEN 1 ELSE Head(d) * Prod(Tail(d))

\* Shape::num_elements
num_elements(sh) == Prod(sh)

\* Shape::strides: the default, row-major strides of a shape.
shape_strides(sh) ==
    [i \in 1..Len(sh) |-> Prod(SubSeq(sh, i + 1, Len(sh)))]

\* The strides of a view that broadcasts the axes bc of a compact buffer
\* holding the other axes in row-major order.
BroadcastStrides(sh, bc) ==
    [i \in 1..Len(sh) |->
        IF i \in bc THEN 0
        ELSE Prod([j \in 1..(Len(sh) - i) |->
                      IF (i + j) \in bc THEN 1 ELSE sh[i + j]])]

\* A Storage of the given shape whose axes bc are broadcast.
Storage(sh, bc) ==
    [shape |-> sh,
     strides |-> BroadcastStrides(sh, bc),
     len |-> Prod([i \in 1..Len(sh) |-> IF i \in bc THEN 1 ELSE sh[i]])]

ShapesOfRank(r) == [1..r -> 1..MaxDim]

\* Every Storage of rank r: allocated, or a broadcast view.
Storages(r) == {Storage(sh, bc) : sh \in ShapesOfRank(r), bc \in SUBSET (1..r)}

\* The Storages of one shape.
StoragesOf(sh) == {Storage(sh, bc) : bc \in SUBSET (1..Len(sh))}

\* The output Storage with the strides of the left operand.
ChooseOutLhsStrides(cond, lhs, rhs) ==
    [shape |-> lhs.shape, strides |-> lhs.strides, len |-> num_elements(lhs.shape)]

\* ChooseKernel::forward: shape = lhs.shape, strides = lhs.shape.strides(),
\* a buffer of numel elements.
ChooseOut(cond, lhs, rhs) ==
    [shape |-> lhs.shape, strides |-> shape_strides(lhs.shape), len |-> num_elements(lhs.shape)]

\* CmpKernel::forward
CmpOut(lhs, rhs) ==
    [shape |-> lhs.shape, strides |-> shape_strides(lhs.shape), len |-> num_elements(lhs.shape)]

\* ScalarCmpKernel::forward
ScalarCmpOut(lhs) ==
    [shape |-> lhs.shape, strides |-> shape_strides(lhs.shape), len |-> num_elements(lhs.shape)]

\* ReplaceDimTo::replace: the indexed axis of the source, the one at the
\* rank of the indices, gives way to the last dimension of the indices,
\* and the axes before it are those of the indices.
replace(src, idx) ==
    [i \in 1..Len(src) |-> IF i <= Len(idx) THEN idx[i] ELSE src[i]]

\* RemoveDimTo::remove: the indexed axis of the source, the one after the
\* rank of the indices, is removed.
remove(src, idx) ==
    [i \in 1..(Len(src) - 1) |-> IF i <= Len(idx) THEN src[i] ELSE src[i + 1]]

\* ReplaceDimKernel::forward (gather)
GatherOut(inp, idx) ==
    LET dst == replace(inp.shape, idx.shape)
    IN [shape |-> dst, strides |-> shape_strides(dst), len |-> num_elements(dst)]

\* RemoveDimKernel::forward (select)
SelectOut(inp, idx) ==
    LET dst == remove(inp.shape, idx.shape)
    IN [shape |-> dst, strides |-> shape_strides(dst), len |-> num_elements(dst)]

\* ReduceShapeTo: the shape left when the axes ax are reduced away.
ReduceShape(src, ax) ==
    LET kept == {i \in 1..Len(src) : i \notin ax}
        RECURSIVE Pick(_)
        Pick(i) == IF i > Len(src) THEN <<>>
                   ELSE IF i \in kept THEN <<src[i]>> \o Pick(i + 1) ELSE Pick(i + 1)
    IN Pick(1)

\* The kept axes of the source, in order.
KeptAxes(rank, ax) ==
    LET RECURSIVE Pick(_)
        Pick(i) == IF i > rank THEN <<>>
                   ELSE IF i \in ax THEN Pick(i + 1) ELSE <<i>> \o Pick(i + 1)
    IN Pick(1)

\* reduction_output_strides: the number of elements of dst the reduction
\* produces, one per index over the kept axes the input does not broadcast,
\* and the strides of the freshly allocated output, the default ones.
reduction_output_strides(ax, inp_strides, dst) ==
    LET kept == KeptAxes(Len(inp_strides), ax)
    IN <<Prod([i \in 1..Len(dst) |-> IF inp_strides[kept[i]] = 0 THEN 1 ELSE dst[i]]),
         shape_strides(dst)>>

\* The number of elements of the input's shape.
LogicalNumel(inp) == num_elements(inp.shape)

\* let physical_numel = inp.data.len();
PhysicalNumel(inp) == inp.len

\* let chunk_len = physical_numel / dst_physical_numel;
ChunkLen(ax, inp, dst) ==
    PhysicalNumel(inp) \div reduction_output_strides(ax, inp.strides, dst)[1]

\* MinReduceKernel::forward: a buffer of dst.num_elements() elements, shape
\* dst, strides dst_strides.
MinOut(ax, inp, dst) ==
    [shape |-> dst, strides |-> reduction_output_strides(ax, inp.strides, dst)[2],
     len |-> num_elements(dst)]

\* A forward call returns: the Storage and what else the call computed.
Returned(k, out, more) ==
    /\ kind = "shape"
    /\ lastCall.k = k
    /\ lastCall.result = "pending"
    /\ ncalls' = ncalls + 1
    /\ lastCall' = [lastCall EXCEPT !.result = "ok", !.out = out, !.more = more]
    /\ UNCHANGED <<poolVars, auxVars, modules, loads, fwdOk, threads>>

ChooseForward ==
    Returned("choose", ChooseOut(lastCall.args[1], lastCall.args[2], lastCall.args[3]), <<>>)

CmpForward == Returned("cmp", CmpOut(lastCall.args[1], lastCall.args[2]), <<>>)

ScalarCmpForward == Returned("scalar_cmp", ScalarCmpOut(lastCall.args[1]), <<>>)

GatherForward == Returned("gather", GatherOut(lastCall.args[1], lastCall.args[2]), <<>>)

SelectForward == Returned("select", SelectOut(lastCall.args[1], lastCall.args[2]), <<>>)

MinReduceForward ==
    LET inp == lastCall.args[1]
        ax == lastCall.ax
        dst == lastCall.dst
    IN Returned("min", MinOut(ax, inp, dst),
                [physical_numel |-> PhysicalNumel(inp),
                 dst_physical_numel |-> reduction_output_strides(ax, inp.strides, dst)[1],
                 chunk_len |-> ChunkLen(ax, inp, dst)])

\* The calls the type system admits: operands of one shape for choose and
\* the comparisons, indices matching the source for gather and select, and
\* for the reduction the destination shape of the source and axes.
ForwardCalls ==
    UNION {{[k |-> "choose", args |-> <<cond, lhs, rhs>>] :
              cond \in StoragesOf(sh), lhs \in StoragesOf(sh), rhs \in StoragesOf(sh)} :
           sh \in ShapesOfRank(2)}
    \cup UNION {{[k |-> "cmp", args |-> <<lhs, rhs>>] :
                   lhs \in StoragesOf(sh), rhs \in StoragesOf(sh)} : sh \in ShapesOfRank(2)}
    \cup {[k |-> "scalar_cmp", args |-> <<lhs>>] : lhs \in Storages(2)}
    \cup {c \in [k : {"gather"}, args : Storages(2) \X (Storages(1) \cup Storages(2))] :
            Len(c.args[2].shape) = 2 => c.args[2].shape[1] = c.args[1].shape[1]}
    \cup {c \in [k : {"select"}, args : Storages(2) \X (Storages(0) \cup Storages(1))] :
            Len(c.args[2].shape) = 1 => c.args[2].shape[1] = c.args[1].shape[1]}
    \cup {[k |-> "min", args |-> <<inp>>] : inp \in Storages(2)}

InitShape ==
    /\ op = <<>> /\ kind = "shape" /\ heap = <<>> /\ stor = <<>>
    /\ calls = 0 /\ last = "init" /\ pre = <<>> /\ seen = <<>>
    /\ modules = <<>> /\ loads = <<>> /\ fwdOk = <<>> /\ ncalls = 0
    /\ threads = <<>> /\ opt = <<>> /\ stream = <<>> /\ touched = <<>>
    /\ \E c \in ForwardCalls, ax \in (SUBSET (1..2)) \ {{}} :
          lastCall = [k |-> c.k, dir |-> "forward", loaded |-> FALSE, result |-> "pending",
                      args |-> c.args,
                      ax |-> IF c.k = "min" THEN ax ELSE {},
                      dst |-> IF c.k = "min" THEN ReduceShape(c.args[1].shape, ax) ELSE <<>>,
                      out |-> <<>>, more |-> <<>>]

NextShape ==
    \/ ChooseForward
    \/ CmpForward
    \/ ScalarCmpForward
    \/ GatherForward
    \/ SelectForward
    \/ MinReduceForward

SpecShape == InitShape /\ [][NextShape]_vars

\* The strides str are the contiguous row-major layout of shape sh: the
\* last axis has step 1 and every other axis steps over the axes after it.
IsContiguous(sh, str) ==
    /\ Len(str) = Len(sh)
    /\ \A i \in 1..Len(sh) :
          str[i] = IF i = Len(sh) THEN 1 ELSE str[i + 1] * sh[i + 1]

\* The output shape each operation declares for its inputs.
DeclaredShape(c) ==
    CASE c.k \in {"choose", "cmp", "scalar_cmp"} -> c.args[1].shape
      [] c.k = "gather" -> replace(c.args[1].shape, c.args[2].shape)
      [] c.k = "select" -> remove(c.args[1].shape, c.args[2].shape)
      [] c.k = "min" -> c.dst

\* Some input of the call is a broadcast view.
SomeInputBroadcast(c) ==
    \E i \in DOMAIN c.args : \E j \in DOMAIN c.args[i].strides : c.args[i].strides[j] = 0

Step(o, name, line, reads, writes, n) ==
    [op |-> o, name |-> name, line |-> line, reads |-> reads, writes |-> writes,
     n |-> n, ok |-> TRUE]

\* if !self.dev.has_func(MOD, FNS[0]) { self.dev.load_ptx(..)?; }
LoadPtxStep(line) == Step("load_ptx", "load_ptx", line, {}, {}, 0)

\* self.dev.get_func(MOD, f).unwrap()
GetFuncStep(f, line) == Step("get_func", f, line, {}, {}, 0)

\* unsafe { self.dev.alloc_async::<E>(n) }?
AllocStep(buf, n, line) == Step("alloc_async", "alloc_async", line, {}, {buf}, n)

\* self.dev.alloc_zeros_async::<E>(n)?
AllocZerosStep(buf, n, line) ==
    Step("alloc_zeros_async", "alloc_zeros_async", line, {}, {buf}, n)

\* self.dev.take_async(host values)?
TakeStep(buf, n, line) == Step("take_async", "take_async", line, {}, {buf}, n)

\* unsafe { f.launch_async(cfg, params) }?
LaunchStep(f, reads, writes, n, line) == Step("launch_async", f, line, reads, writes, n)

\* unsafe { sgemm_batch(..).unwrap(); }
GemmStep(reads, writes, line) == Step("sgemm_batch", "sgemm_batch", line, reads, writes, 0)

\* The kernel a call runs: the element type f32 stands for both.
KernelOf(name) ==
    CASE name = "cmp" -> <<"eq", "f32">>
      [] name = "scalar_cmp" -> <<"scalar_eq", "f32">>
      [] OTHER -> <<name, "f32">>

\* ChooseKernel::forward
ChooseForwardSteps(c) ==
    LET f == FNS(KernelOf(c.k))
        shape == c.args[2].shape
        numel == num_elements(shape)
    IN << LoadPtxStep(37),
          AllocStep("storage", numel, 44),
          TakeStep("dims", Len(shape), 46),
          TakeStep("cond_strides", Len(shape), 47),
          TakeStep("lhs_strides", Len(shape), 48),
          TakeStep("rhs_strides", Len(shape), 49),
          GetFuncStep(f[1], 51),
          LaunchStep(f[1], {"dims", "cond", "cond_strides", "lhs", "lhs_strides",
                            "rhs", "rhs_strides"}, {"storage"}, numel, 65) >>

\* ChooseKernel::backward
ChooseBackwardSteps(c) ==
    LET f == FNS(KernelOf(c.k))
        shape == c.args[1].shape
        numel == num_elements(shape)
    IN << GetFuncStep(f[2], 80),
          TakeStep("dims", Len(shape), 83),
          TakeStep("lhs_strides", Len(shape), 84),
          TakeStep("cond_strides", Len(shape), 85),
          TakeStep("rhs_strides", Len(shape), 86),
          LaunchStep(f[2], {"dims", "cond", "cond_strides", "grad_lhs", "lhs_strides",
                            "grad_rhs", "rhs_strides", "grad_out"},
                     {"grad_lhs", "grad_rhs"}, numel, 101) >>

\* CmpKernel::forward
CmpForwardSteps(c) ==
    LET f == FNS(KernelOf(c.k))
        shape == c.args[1].shape
        numel == num_elements(shape)
    IN << LoadPtxStep(46),
          AllocZerosStep("storage", numel, 53),
          TakeStep("dims", Len(shape), 55),
          TakeStep("lhs_strides", Len(shape), 56),
          TakeStep("rhs_strides", Len(shape), 57),
          TakeStep("out_strides", Len(shape), 58),
          GetFuncStep(f[1], 60),
          LaunchStep(f[1], {"dims", "lhs", "lhs_strides", "rhs", "rhs_strides",
                            "out_strides"}, {"storage"}, numel, 73) >>

\* ScalarCmpKernel::forward
ScalarCmpForwardSteps(c) ==
    LET f == FNS(KernelOf(c.k))
        shape == c.args[1].shape
        numel == num_elements(shape)
    IN << LoadPtxStep(90),
          AllocZerosStep("storage", numel, 97),
          TakeStep("dims", Len(shape), 99),
          TakeStep("lhs_strides", Len(shape), 100),
          TakeStep("out_strides", Len(shape), 101),
          GetFuncStep(f[1], 103),
          LaunchStep(f[1], {"dims", "lhs", "lhs_strides", "out_strides"},
                     {"storage"}, numel, 115) >>

\* ReplaceDimKernel::forward (gather)
GatherForwardSteps(c) ==
    LET f == FNS(KernelOf(c.k))
        inp == c.args[1]
        idx == c.args[2]
        numel == num_elements(replace(inp.shape, idx.shape))
    IN << LoadPtxStep(23),
          AllocZerosStep("storage", numel, 32),
          TakeStep("inp_dims", Len(inp.shape), 34),
          TakeStep("idx_dims", Len(idx.shape), 35),
          TakeStep("inp_strides", Len(inp.shape), 36),
          TakeStep("idx_strides", Len(idx.shape), 37),
          GetFuncStep(f[1], 39),
          LaunchStep(f[1], {"inp", "inp_dims", "inp_strides", "idx", "idx_dims",
                            "idx_strides"}, {"storage"}, numel, 54) >>

\* ReplaceDimKernel::backward (gather): numel = grad_out.data.len()
GatherBackwardSteps(c) ==
    LET f == FNS(KernelOf(c.k))
        inp == c.args[1]
        idx == c.args[2]
        numel == GatherOut(inp, idx).len
    IN << GetFuncStep(f[2], 72),
          TakeStep("inp_dims", Len(inp.shape), 75),
          TakeStep("idx_dims", Len(idx.shape), 76),
          TakeStep("inp_strides", Len(inp.shape), 77),
          TakeStep("idx_strides", Len(idx.shape), 78),
          LaunchStep(f[2], {"grad_inp", "inp_dims", "inp_strides", "idx", "idx_dims",
                            "idx_strides", "grad_out"}, {"grad_inp"}, numel, 94) >>

\* RemoveDimKernel::forward (select)
SelectForwardSteps(c) ==
    LET f == FNS(KernelOf(c.k))
        inp == c.args[1]
        idx == c.args[2]
        dst == remove(inp.shape, idx.shape)
        numel == num_elements(dst)
    IN << LoadPtxStep(109),
          AllocZerosStep("storage", numel, 118),
          TakeStep("inp_dims", Len(inp.shape), 120),
          TakeStep("idx_dims", Len(idx.shape), 121),
          TakeStep("dst_dims", Len(dst), 122),
          TakeStep("inp_strides", Len(inp.shape), 123),
          TakeStep("idx_strides", Len(idx.shape), 124),
          TakeStep("dst_strides", Len(dst), 125),
          GetFuncStep(f[1], 127),
          LaunchStep(f[1], {"inp", "inp_dims", "inp_strides", "idx", "idx_dims",
                            "idx_strides", "dst_dims", "dst_strides"},
                     {"storage"}, numel, 143) >>

\* RemoveDimKernel::backward (select)
SelectBackwardSteps(c) ==
    LET f == FNS(KernelOf(c.k))
        inp == c.args[1]
        idx == c.args[2]
        dst == remove(inp.shape, idx.shape)
        numel == SelectOut(inp, idx).len
    IN << GetFuncStep(f[2], 161),
          TakeStep("inp_dims", Len(inp.shape), 164),
          TakeStep("idx_dims", Len(idx.shape), 165),
          TakeStep("out_dims", Len(dst), 166),
          TakeStep("inp_strides", Len(inp.shape), 167),
          TakeStep("idx_strides", Len(idx.shape), 168),
          TakeStep("out_strides", Len(dst), 169),
          LaunchStep(f[2], {"grad_inp", "inp_dims", "inp_strides", "idx", "idx_dims",
                            "idx_strides", "grad_out", "out_dims", "out_strides"},
                     {"grad_inp"}, numel, 186) >>

\* Conv2DKernel::forward
Conv2DForwardSteps(c) ==
    LET f == FNS(KernelOf(c.k))
        o == c.o
        patches_numel == o.batch * o.chan_in * o.kernel * o.kernel * o.h_out * o.w_out
    IN << LoadPtxStep(59),
          AllocZerosStep("patches", patches_numel, 63),
          TakeStep("img_strides", 4, 64),
          GetFuncStep(f[1], 65),
          LaunchStep(f[1], {"lhs", "img_strides"}, {"patches"}, patches_numel, 68),
          GemmStep({"rhs", "patches"}, {"out"}, 75) >>

\* Conv2DKernel::backward with the weight-gradient GEMM moved to the front,
\* ahead of the unfold that fills its right operand.
Conv2DBackwardStepsWeightFirst(c) ==
    LET f == FNS(KernelOf(c.k))
        o == c.o
    IN << AllocZerosStep("patches", PatchesNumel(o), 102),
          AllocZerosStep("f_b1023", FiltersNumel(o), 113),
          AllocZerosStep("grad_f_b1023", FiltersNumel(o), 114),
          TakeStep("f_strides", 4, 115),
          GemmStep({"lhs", "patches", "grad_f_b1023"}, {"grad_f_b1023"}, 155),
          GetFuncStep(f[2], 106),
          LaunchStep(f[2], {"grad_out"}, {"patches"}, PatchesNumel(o), 109),
          GetFuncStep(f[3], 120),
          LaunchStep(f[3], {"rhs", "f_strides"}, {"f_b1023"},
                     NumElements(RhsShape(o)), 123),
          GemmStep({"f_b1023", "patches", "grad_lhs"}, {"grad_lhs"}, 133),
          GetFuncStep(f[4], 171),
          LaunchStep(f[4], {"grad_f_b1023", "grad_rhs", "f_strides"}, {"grad_rhs"},
                     NumElements(RhsShape(o)), 179) >>

\* Conv2DKernel::backward
Conv2DBackwardSteps(c) ==
    LET f == FNS(KernelOf(c.k))
        o == c.o
    IN << AllocZerosStep("patches", PatchesNumel(o), 102),
          GetFuncStep(f[2], 106),
          LaunchStep(f[2], {"grad_out"}, {"patches"}, PatchesNumel(o), 109),
          AllocZerosStep("f_b1023", FiltersNumel(o), 113),
          AllocZerosStep("grad_f_b1023", FiltersNumel(o), 114),
          TakeStep("f_strides", 4, 115),
          GetFuncStep(f[3], 120),
          LaunchStep(f[3], {"rhs", "f_strides"}, {"f_b1023"},
                     NumElements(RhsShape(o)), 123),
          GemmStep({"f_b1023", "patches", "grad_lhs"}, {"grad_lhs"}, 133),
          GemmStep({"lhs", "patches", "grad_f_b1023"}, {"grad_f_b1023"}, 155),
          GetFuncStep(f[4], 171),
          LaunchStep(f[4], {"grad_f_b1023", "grad_rhs", "f_strides"}, {"grad_rhs"},
                     NumElements(RhsShape(o)), 179) >>

\* MinReduceKernel::forward with the fill launch after the reduction.
MinReduceForwardStepsFillLast(c) ==
    LET f == FNS(KernelOf(c.k))
        inp == c.args[1]
    IN << LoadPtxStep(44),
          GetFuncStep(f[3], 47),
          AllocStep("storage", num_elements(c.dst), 49),
          GetFuncStep(f[1], 57),
          TakeStep("dims", Len(inp.shape), 60),
          TakeStep("strides", Len(inp.shape), 61),
          LaunchStep(f[1], {"inp", "dims", "strides", "storage"}, {"storage"},
                     PhysicalNumel(inp), 78),
          LaunchStep(f[3], {}, {"storage"}, num_elements(c.dst), 50) >>

\* MinReduceKernel::forward: the fill launch is handed the buffer, INIT and
\* dst.num_elements(); the reduction is handed the same buffer as out.
MinReduceForwardSteps(c) ==
    LET f == FNS(KernelOf(c.k))
        inp == c.args[1]
    IN << LoadPtxStep(44),
          GetFuncStep(f[3], 47),
          AllocStep("storage", num_elements(c.dst), 49),
          LaunchStep(f[3], {}, {"storage"}, num_elements(c.dst), 50),
          GetFuncStep(f[1], 57),
          TakeStep("dims", Len(inp.shape), 60),
          TakeStep("strides", Len(inp.shape), 61),
          LaunchStep(f[1], {"inp", "dims", "strides", "storage"}, {"storage"},
                     PhysicalNumel(inp), 78) >>

\* MinReduceKernel::backward
MinReduceBackwardSteps(c) ==
    LET f == FNS(KernelOf(c.k))
        inp == c.args[1]
    IN << GetFuncStep(f[2], 96),
          TakeStep("dims", Len(inp.shape), 98),
          TakeStep("inp_strides", Len(inp.shape), 99),
          TakeStep("out_strides", Len(inp.shape), 102),
          LaunchStep(f[2], {"dims", "inp", "grad_inp", "inp_strides", "out", "grad_out",
                            "out_strides"}, {"grad_inp"}, PhysicalNumel(inp), 124) >>

\* The program of a call.
Steps(c) ==
    CASE c.k = "choose" /\ c.dir = "forward" -> ChooseForwardSteps(c)
      [] c.k = "choose" /\ c.dir = "backward" -> ChooseBackwardSteps(c)
      [] c.k = "cmp" -> CmpForwardSteps(c)
      [] c.k = "scalar_cmp" -> ScalarCmpForwardSteps(c)
      [] c.k = "gather" /\ c.dir = "forward" -> GatherForwardSteps(c)
      [] c.k = "gather" /\ c.dir = "backward" -> GatherBackwardSteps(c)
      [] c.k = "select" /\ c.dir = "forward" -> SelectForwardSteps(c)
      [] c.k = "select" /\ c.dir = "backward" -> SelectBackwardSteps(c)
      [] c.k = "conv2d" /\ c.dir = "forward" -> Conv2DForwardSteps(c)
      [] c.k = "conv2d" /\ c.dir = "backward" -> Conv2DBackwardSteps(c)
      [] c.k = "min" /\ c.dir = "forward" -> MinReduceForwardSteps(c)
      [] c.k = "min" /\ c.dir = "backward" -> MinReduceBackwardSteps(c)

\* Ok(CudaArray { .. }): the Storage a forward call returns; conv2d forward
\* and every backward return Ok(()).
ReturnedStorage(c) ==
    IF c.dir = "backward" \/ c.k = "conv2d" THEN None
    ELSE Some(CASE c.k = "choose" -> ChooseOut(c.args[1], c.args[2], c.args[3])
                [] c.k = "cmp" -> CmpOut(c.args[1], c.args[2])
                [] c.k = "scalar_cmp" -> ScalarCmpOut(c.args[1])
                [] c.k = "gather" -> GatherOut(c.args[1], c.args[2])
                [] c.k = "select" -> SelectOut(c.args[1], c.args[2])
                [] c.k = "min" -> MinOut(c.ax, c.args[1], c.dst))

\* The ? operator on a failed request with the error ignored.
QuestionIgnored(failed) == "continue"

\* The ? operator: a failed request returns its error from the call.
Question(failed) == IF failed THEN "err" ELSE "continue"

\* .unwrap() on the Result of a GEMM: a failed GEMM panics.
Unwrap(failed) == IF failed THEN "panic" ELSE "continue"

\* What the host does with the outcome of a request.
Outcome(s, failed) == IF s.op = "sgemm_batch" THEN Unwrap(failed) ELSE Question(failed)

RECURSIVE Run(_, _, _, _, _, _)
\* The host runs a program from its i-th step: the fail-th step, if it is
\* reached and makes a request, fails.  The result names how the call ended,
\* the requests made in order, and the module cache it leaves.
Run(k, steps, i, fail, mods, issued) ==
    IF i > Len(steps) THEN [result |-> "ok", issued |-> issued, mods |-> mods]
    ELSE LET s == steps[i]
         IN CASE s.op = "load_ptx" /\ ~NeedsLoad(mods, k) ->
                    Run(k, steps, i + 1, fail, mods, issued)
              [] s.op = "get_func" ->
                    IF get_func(mods, MOD(k), s.name) = None
                    THEN [result |-> "panic", issued |-> issued, mods |-> mods]
                    ELSE Run(k, steps, i + 1, fail, mods, issued)
              [] OTHER ->
                    LET failed == (fail = i)
                        req == Append(issued, [s EXCEPT !.ok = ~failed])
                        loaded == IF s.op = "load_ptx" /\ ~failed
                                  THEN load_ptx(mods, MOD(k), LoadPtxFns(k))
                                  ELSE mods
                        then == Outcome(s, failed)
                    IN IF then = "continue"
                       THEN Run(k, steps, i + 1, fail, loaded, req)
                       ELSE [result |-> then, issued |-> req, mods |-> loaded]

(***************************************************************************)
(* The device side: the requests of a call run on one stream, in the order *)
(* they were made.  A buffer is described by its length, the number of     *)
(* leading slots that hold a defined value, the value its slots were last  *)
(* filled with, and the kernels that have written it.                      *)
(***************************************************************************)
\* HasCudaKernel::INIT of min_to: f32::INFINITY, f64::INFINITY
INIT == Infinity

Max(a, b) == IF a >= b THEN a ELSE b

\* A buffer the caller hands in: every slot defined.
ReadyBuf(n) == [len |-> n, init |-> n, fill |-> None, by |-> <<"input">>]

\* alloc_async: n slots, none of them defined.
UninitBuf(n) == [len |-> n, init |-> 0, fill |-> None, by |-> <<>>]

\* alloc_zeros_async: n slots holding zero.
ZeroedBuf(n) == [len |-> n, init |-> n, fill |-> Some(Zero), by |-> <<>>]

\* take_async: the host values, copied.
CopiedBuf(n) == [len |-> n, init |-> n, fill |-> None, by |-> <<"take_async">>]

\* The device kernel fill_with: slot i < numel receives the value.
FillWith(buf, value, numel) ==
    [buf EXCEPT !.init = Max(@, Min(numel, buf.len)),
                !.fill = Some(value),
                !.by = Append(@, "fill_with")]

IsFill(s) == s.op = "launch_async" /\ s.name \in {"fill_with_f32", "fill_with_f64"}

\* What a kernel's result is computed from, beyond defined slots: the buffer
\* and the kernel that must have written it.
Consumes(s) ==
    CASE s.op = "sgemm_batch" /\ "grad_lhs" \in s.writes ->
            {<<"patches", "unfold_output_into_patches_f32">>,
             <<"f_b1023", "transpose_and_broadcast_filters_f32">>}
      [] s.op = "sgemm_batch" /\ "grad_f_b1023" \in s.writes ->
            {<<"patches", "unfold_output_into_patches_f32">>}
      [] s.op = "sgemm_batch" /\ "out" \in s.writes ->
            {<<"patches", "unfold_input_into_patches_f32">>}
      [] s.op = "launch_async" /\ s.name = "sum_transposed_filters_f32" ->
            {<<"grad_f_b1023", "sgemm_batch">>}
      [] s.op = "launch_async" /\ s.name = "min_to_fwd_f32" ->
            {<<"storage", "fill_with">>}
      [] OTHER -> {}

\* A kernel or GEMM runs on a buffer that does not exist yet, reads a slot
\* no one has defined, or reads a buffer before its producer has run.
Hazard(s, bufs) ==
    /\ s.op \in {"launch_async", "sgemm_batch"}
    /\ \/ \E b \in s.reads \cup s.writes : b \notin DOMAIN bufs
       \/ \E b \in s.reads : b \in DOMAIN bufs /\ bufs[b].init < bufs[b].len
       \/ \E p \in Consumes(s) : p[1] \in DOMAIN bufs /\ p[2] \notin Range(bufs[p[1]].by)

\* The buffers after the device has run request s.
Execute(s, bufs) ==
    LET w == CHOOSE b \in s.writes : TRUE
    IN CASE s.op = "alloc_async" -> (w :> UninitBuf(s.n)) @@ bufs
         [] s.op = "alloc_zeros_async" -> (w :> ZeroedBuf(s.n)) @@ bufs
         [] s.op = "take_async" -> (w :> CopiedBuf(s.n)) @@ bufs
         [] IsFill(s) ->
               [b \in DOMAIN bufs |->
                   IF b \in s.writes THEN FillWith(bufs[b], INIT, s.n) ELSE bufs[b]]
         [] s.op \in {"launch_async", "sgemm_batch"} ->
               [b \in DOMAIN bufs |->
                   IF b \in s.writes THEN [bufs[b] EXCEPT !.by = Append(@, s.name)]
                   ELSE bufs[b]]
         [] OTHER -> bufs

\* The buffers the caller hands to a call.
InputBufs(c) ==
    LET a == c.args
    IN CASE c.k = "choose" /\ c.dir = "forward" ->
               ("cond" :> ReadyBuf(a[1].len)) @@ ("lhs" :> ReadyBuf(a[2].len))
               @@ ("rhs" :> ReadyBuf(a[3].len))
         [] c.k = "choose" /\ c.dir = "backward" ->
               ("cond" :> ReadyBuf(a[1].len)) @@ ("grad_lhs" :> ReadyBuf(a[2].len))
               @@ ("grad_rhs" :> ReadyBuf(a[3].len))
               @@ ("grad_out" :> ReadyBuf(num_elements(a[1].shape)))
         [] c.k = "cmp" -> ("lhs" :> ReadyBuf(a[1].len)) @@ ("rhs" :> ReadyBuf(a[2].len))
         [] c.k = "scalar_cmp" -> ("lhs" :> ReadyBuf(a[1].len))
         [] c.k \in {"gather", "select"} /\ c.dir = "forward" ->
               ("inp" :> ReadyBuf(a[1].len)) @@ ("idx" :> ReadyBuf(a[2].len))
         [] c.k = "gather" /\ c.dir = "backward" ->
               ("grad_inp" :> ReadyBuf(a[1].len)) @@ ("idx" :> ReadyBuf(a[2].len))
               @@ ("grad_out" :> ReadyBuf(GatherOut(a[1], a[2]).len))
         [] c.k = "select" /\ c.dir = "backward" ->
               ("grad_inp" :> ReadyBuf(a[1].len)) @@ ("idx" :> ReadyBuf(a[2].len))
               @@ ("grad_out" :> ReadyBuf(SelectOut(a[1], a[2]).len))
         [] c.k = "min" /\ c.dir = "forward" -> ("inp" :> ReadyBuf(a[1].len))
         [] c.k = "min" /\ c.dir = "backward" ->
               ("inp" :> ReadyBuf(a[1].len)) @@ ("grad_inp" :> ReadyBuf(a[1].len))
               @@ ("out" :> ReadyBuf(num_elements(c.dst)))
               @@ ("grad_out" :> ReadyBuf(num_elements(c.dst)))
         [] c.k = "conv2d" /\ c.dir = "forward" ->
               ("lhs" :> ReadyBuf(NumElements(LhsShape(c.o))))
               @@ ("rhs" :> ReadyBuf(NumElements(RhsShape(c.o))))
               @@ ("out" :> ReadyBuf(NumElements(ConvOutShape(c.o))))
         [] c.k = "conv2d" /\ c.dir = "backward" ->
               ("lhs" :> ReadyBuf(NumElements(LhsShape(c.o))))
               @@ ("grad_lhs" :> ReadyBuf(NumElements(LhsShape(c.o))))
               @@ ("rhs" :> ReadyBuf(NumElements(RhsShape(c.o))))
               @@ ("grad_rhs" :> ReadyBuf(NumElements(RhsShape(c.o))))
               @@ ("grad_out" :> ReadyBuf(NumElements(ConvOutShape(c.o))))

\* A call of handler (k, dir): the host makes its requests and returns.
Call(k, dir) ==
    /\ kind = "stream"
    /\ stream.result = "pending"
    /\ stream.call.k = k /\ stream.call.dir = dir
    /\ LET c == stream.call
           r == Run(KernelOf(k), Steps(c), 1, stream.fail, modules, <<>>)
       IN /\ stream' = [stream EXCEPT !.result = r.result,
                                      !.issued = r.issued,
                                      !.out = IF r.result = "ok" THEN ReturnedStorage(c)
                                              ELSE None,
                                      !.bufs = InputBufs(c)]
          /\ modules' = r.mods
    /\ UNCHANGED <<poolVars, loads, fwdOk, ncalls, lastCall, threads, opt, touched>>

ChooseForwardCall == Call("choose", "forward")
ChooseBackwardCall == Call("choose", "backward")
CmpForwardCall == Call("cmp", "forward")
ScalarCmpForwardCall == Call("scalar_cmp", "forward")
GatherForwardCall == Call("gather", "forward")
GatherBackwardCall == Call("gather", "backward")
SelectForwardCall == Call("select", "forward")
SelectBackwardCall == Call("select", "backward")
Conv2DForwardCall == Call("conv2d", "forward")
Conv2DBackwardCall == Call("conv2d", "backward")
MinReduceForwardCall == Call("min", "forward")
MinReduceBackwardCall == Call("min", "backward")

\* The stream runs its next request; the host does not wait for it.
DeviceStep ==
    /\ kind = "stream"
    /\ stream.result # "pending"
    /\ stream.done < Len(stream.issued)
    /\ stream.issued[stream.done + 1].ok
    /\ LET s == stream.issued[stream.done + 1]
       IN stream' = [stream EXCEPT !.done = @ + 1,
                                   !.ran = s,
                                   !.before = stream.bufs,
                                   !.hazard = @ \/ Hazard(s, stream.bufs),
                                   !.bufs = Execute(s, stream.bufs)]
    /\ UNCHANGED <<poolVars, devVars, opt, touched>>

\* The convolutions the stream is run with: one pixel, one channel.
StreamConvOps ==
    {o \in Conv2DOps : o.chan_in = 1 /\ o.chan_out = 1 /\ o.h_in = 1 /\ o.w_in = 1
                       /\ o.h_out = 1 /\ o.stride = 1 /\ o.padding = 0}

\* The operands of the calls: views only for the reduction.
Allocated(c) == \A i \in DOMAIN c.args : c.args[i].len = num_elements(c.args[i].shape)

StreamCalls ==
    {[k |-> c.k, dir |-> dir, args |-> c.args, ax |-> {}, dst |-> <<>>, o |-> <<>>] :
        c \in {x \in ForwardCalls : x.k # "min" /\ Allocated(x)},
        dir \in {"forward", "backward"}}
    \cup {[k |-> c.k, dir |-> dir, args |-> c.args, ax |-> ax,
           dst |-> ReduceShape(c.args[1].shape, ax), o |-> <<>>] :
            c \in {x \in ForwardCalls : x.k = "min"},
            ax \in (SUBSET (1..2)) \ {{}}, dir \in {"forward", "backward"}}
    \cup [k : {"conv2d"}, dir : {"forward", "backward"}, args : {<<>>}, ax : {{}},
          dst : {<<>>}, o : StreamConvOps]

\* The requests of a program that can fail.
Fallible(c) == {i \in DOMAIN Steps(c) : Steps(c)[i].op # "get_func"}

NoStep == Step("none", "none", 0, {}, {}, 0)

\* One call on a device where the kernel's module is loaded or is not; at
\* most one of its requests fails.
InitStream ==
    /\ op = <<>> /\ kind = "stream" /\ heap = <<>> /\ stor = <<>>
    /\ calls = 0 /\ last = "init" /\ pre = <<>> /\ seen = <<>>
    /\ loads = <<>> /\ fwdOk = <<>> /\ ncalls = 0 /\ lastCall = NoCall
    /\ threads = <<>> /\ opt = <<>> /\ touched = <<>>
    /\ \E c \in StreamCalls :
          /\ c.dir = "backward" => c.k \notin {"cmp", "scalar_cmp"}
          /\ modules \in {<<>>, load_ptx(<<>>, MOD(KernelOf(c.k)), LoadPtxFns(KernelOf(c.k)))}
          /\ \E fail \in {0} \cup Fallible(c) :
                stream = [call |-> c, fail |-> fail, result |-> "pending",
                          issued |-> <<>>, out |-> None, done |-> 0, bufs |-> <<>>,
                          ran |-> NoStep, before |-> <<>>, hazard |-> FALSE]

NextStream ==
    \/ ChooseForwardCall
    \/ ChooseBackwardCall
    \/ CmpForwardCall
    \/ ScalarCmpForwardCall
    \/ GatherForwardCall
    \/ GatherBackwardCall
    \/ SelectForwardCall
    \/ SelectBackwardCall
    \/ Conv2DForwardCall
    \/ Conv2DBackwardCall
    \/ MinReduceForwardCall
    \/ MinReduceBackwardCall
    \/ DeviceStep

SpecStream == InitStream /\ [][NextStream]_vars

(***************************************************************************)
(* Accumulator initialisation: the min-reduce forward calls of the stream  *)
(* and the three pooling forward kernels of the host.                      *)
(***************************************************************************)
InitMinReduce ==
    /\ InitStream
    /\ stream.call.k = "min" /\ stream.call.dir = "forward"

InitIdentity == InitMinReduce \/ InitPool

NextIdentity ==
    \/ MinReduceForwardCall
    \/ DeviceStep
    \/ AvgPool2DForward
    \/ MaxPool2DForward
    \/ MinPool2DForward

SpecIdentity == InitIdentity /\ [][NextIdentity]_vars

\* The positions at which the requests named name were made.
Pos(name) == {i \in DOMAIN stream.issued : stream.issued[i].name = name}

Before(a, b) == \A j \in Pos(b) : \E i \in Pos(a) : i < j /\ stream.issued[i].ok

MinForwardCalled ==
    /\ kind = "stream" /\ stream.result # "pending"
    /\ stream.call.k = "min" /\ stream.call.dir = "forward"

PoolForwardDone == kind \in {"avg", "max", "min"} /\ last = "forward"

\* The values of the input at the in-bounds positions of window w.
WindowValues(w) == {InpAt(c) : c \in InBounds(op, w)}

(***************************************************************************)
(* C17.  Min-reduce forward on the accelerator: the fill launch is handed  *)
(* all dst.num_elements() slots of the output and is enqueued before the   *)
(* reduction launch; when the stream runs the reduction, every slot of the *)
(* output holds +infinity, and no kernel has read an undefined slot.  On   *)
(* the host, a max-pool window with no in-bounds position yields           *)
(* -infinity and otherwise the greatest in-bounds value, min-pool yields   *)
(* +infinity and the least, and avg-pool the sum from 0 over the area.     *)
(***************************************************************************)
C17_AccumulatorsStartAtIdentity ==
    /\ MinForwardCalled =>
          /\ Before("fill_with_f32", "min_to_fwd_f32")
          /\ \A i \in Pos("fill_with_f32") :
                stream.issued[i].n = num_elements(stream.call.dst)
          /\ stream.ran.name = "min_to_fwd_f32" =>
                /\ stream.before["storage"].len = num_elements(stream.call.dst)
                /\ stream.before["storage"].init = stream.before["storage"].len
                /\ stream.before["storage"].fill = Some(Infinity)
          /\ ~stream.hazard
    /\ PoolForwardDone =>
          \A w \in OutCoords(op) :
              CASE kind = "max" ->
                     IF WindowValues(w) = {} THEN OutAt(w) = NegInfinity
                     ELSE OutAt(w) \in WindowValues(w)
                          /\ \A v \in WindowValues(w) : v <= OutAt(w)
                [] kind = "min" ->
                     IF WindowValues(w) = {} THEN OutAt(w) = Infinity
                     ELSE OutAt(w) \in WindowValues(w)
                          /\ \A v \in WindowValues(w) : v >= OutAt(w)
                [] kind = "avg" ->
                     OutAt(w) = FDiv(Zero + Sum([c \in InpCoords(op) |-> InpAt(c)],
                                                InBounds(op, w)), KernelArea(op))

\* The stream has run the reduction of a call with several output slots,
\* after the fill.
C17_Witness ==
    /\ MinForwardCalled
    /\ stream.result = "ok"
    /\ stream.ran.name = "min_to_fwd_f32"
    /\ stream.before["storage"].len > 1
    /\ stream.before["storage"].fill = Some(INIT)
    /\ "fill_with" \in Range(stream.before["storage"].by)

\* The requests whose failure the ? operator turns into the call's error.
Propagated == {"alloc_async", "alloc_zeros_async", "take_async", "load_ptx", "launch_async"}

StreamCalled == kind = "stream" /\ stream.result # "pending"

\* The requests of the program that come after its request made at line.
LaterRequests(c, line) ==
    LET steps == Steps(c)
        at == CHOOSE i \in DOMAIN steps : steps[i].line = line
    IN {steps[j].line : j \in {x \in DOMAIN steps : x > at /\ steps[x].op # "get_func"}}

GemmPos(w) ==
    {i \in DOMAIN stream.issued :
        stream.issued[i].op = "sgemm_batch" /\ w \in stream.issued[i].writes}

\* Every request at a position of later comes after a successful request
\* at a position of earlier.
Precedes(earlier, later) ==
    \A j \in later : \E i \in earlier : i < j /\ stream.issued[i].ok

ConvBackwardCalled ==
    StreamCalled /\ stream.call.k = "conv2d" /\ stream.call.dir = "backward"

\* The stream has run the request and it wrote w.
Ran(name, w) == stream.ran.name = name /\ w \in stream.ran.writes

(***************************************************************************)
(* C20.  Conv2d backward enqueues the unfold of grad_out and the transpose *)
(* of the filters before the data-gradient GEMM, the unfold before the     *)
(* weight-gradient GEMM, and the weight-gradient GEMM before the batch-sum *)
(* kernel; the stream running the requests in that order, each GEMM and    *)
(* the sum kernel find their operands written by their producers.          *)
(***************************************************************************)
C20_ConvBackwardOrder ==
    ConvBackwardCalled =>
        /\ Precedes(Pos("unfold_output_into_patches_f32"), GemmPos("grad_lhs"))
        /\ Precedes(Pos("transpose_and_broadcast_filters_f32"), GemmPos("grad_lhs"))
        /\ Precedes(Pos("unfold_output_into_patches_f32"), GemmPos("grad_f_b1023"))
        /\ Precedes(GemmPos("grad_f_b1023"), Pos("sum_transposed_filters_f32"))
        /\ Ran("sgemm_batch", "grad_lhs") =>
              /\ "unfold_output_into_patches_f32" \in Range(stream.before["patches"].by)
              /\ "transpose_and_broadcast_filters_f32"
                     \in Range(stream.before["f_b1023"].by)
        /\ Ran("sgemm_batch", "grad_f_b1023") =>
              "unfold_output_into_patches_f32" \in Range(stream.before["patches"].by)
        /\ Ran("sum_transposed_filters_f32", "grad_rhs") =>
              "sgemm_batch" \in Range(stream.before["grad_f_b1023"].by)
        /\ ~stream.hazard

\* A conv2d backward that returned Ok, all nine of its requests run by the
\* stream, the batch-sum kernel last.
C20_Witness ==
    /\ ConvBackwardCalled
    /\ stream.result = "ok"
    /\ Len(stream.issued) = 9
    /\ stream.done = Len(stream.issued)
    /\ Ran("sum_transposed_filters_f32", "grad_rhs")
    /\ ~stream.hazard

(***************************************************************************)
(* Choose backward on the accelerator: the host hands the kernel the shape *)
(* of the mask, the mask, the two gradient buffers with the strides of     *)
(* their Storages, and the upstream gradient.                              *)
(***************************************************************************)
RECURSIVE get_strided_index(_, _, _, _)
\* The device helper get_strided_index: the buffer position of the idx-th
\* element of a shape, through the strides.
get_strided_index(idx, d, dims, strides) ==
    IF d = 0 THEN 0
    ELSE (idx % dims[d]) * strides[d] + get_strided_index(idx \div dims[d], d - 1, dims, strides)

\* The params with the two gradient operands exchanged.
ChooseBackwardParamsSwapped(st) ==
    [numel |-> num_elements(op.shape),
     num_dims |-> Len(op.shape),
     dims |-> op.shape,
     cond |-> "cond",
     cond_strides |-> st["cond"].strides,
     grad_lhs |-> "grad_rhs",
     lhs_strides |-> st["grad_rhs"].strides,
     grad_rhs |-> "grad_lhs",
     rhs_strides |-> st["grad_lhs"].strides,
     grad_out |-> "grad_out"]

\* let params = (numel, S::NUM_DIMS, &dims, cond, &cond_strides,
\*               grad_lhs, &lhs_strides, grad_rhs, &rhs_strides, grad_out)
ChooseBackwardParams(st) ==
    [numel |-> num_elements(op.shape),
     num_dims |-> Len(op.shape),
     dims |-> op.shape,
     cond |-> "cond",
     cond_strides |-> st["cond"].strides,
     grad_lhs |-> "grad_lhs",
     lhs_strides |-> st["grad_lhs"].strides,
     grad_rhs |-> "grad_rhs",
     rhs_strides |-> st["grad_rhs"].strides,
     grad_out |-> "grad_out"]

RECURSIVE choose_bwd(_, _, _, _)
\* The device kernel choose_bwd from element i on: where the mask holds the
\* upstream gradient is added to grad_lhs, elsewhere to grad_rhs.  mem maps
\* the operands to their buffers; routes records, per element, the operand
\* and slot added to and the amount.
choose_bwd(p, i, mem, routes) ==
    IF i = p.numel THEN [mem |-> mem, routes |-> routes]
    ELSE LET cond_i == get_strided_index(i, p.num_dims, p.dims, p.cond_strides)
             lhs_i == get_strided_index(i, p.num_dims, p.dims, p.lhs_strides)
             rhs_i == get_strided_index(i, p.num_dims, p.dims, p.rhs_strides)
             g == mem[p.grad_out][i]
             to == IF mem[p.cond][cond_i] THEN p.grad_lhs ELSE p.grad_rhs
             slot == IF mem[p.cond][cond_i] THEN lhs_i ELSE rhs_i
         IN choose_bwd(p, i + 1,
                       [mem EXCEPT ![to][slot] = @ + g],
                       Append(routes, [to |-> to, slot |-> slot, amount |-> g]))

\* ChooseKernel::backward.  The first statement, get_func(..).unwrap(),
\* panics on a device where forward has not loaded the module.
ChooseBackward ==
    /\ kind = "choose"
    /\ calls < MaxCalls
    /\ last # "panic"
    /\ IF ~AllFound(modules, MOD(KernelOf("choose")), BwdFns(KernelOf("choose")))
       THEN /\ last' = "panic"
            /\ UNCHANGED <<heap, stor, pre, calls>>
       ELSE LET m1 == MakeMut(heap, stor, "grad_lhs")
                m2 == MakeMut(m1.heap, m1.stor, "grad_rhs")
                mem == [s \in DOMAIN m2.stor |-> m2.heap[m2.stor[s].data]]
                r == choose_bwd(ChooseBackwardParams(m2.stor), 0, mem, <<>>)
            IN /\ heap' = [b \in DOMAIN m2.heap |->
                              IF \E s \in DOMAIN m2.stor : m2.stor[s].data = b
                              THEN r.mem[CHOOSE s \in DOMAIN m2.stor : m2.stor[s].data = b]
                              ELSE m2.heap[b]]
               /\ stor' = m2.stor
               /\ pre' = [grad_lhs |-> Buf(heap, stor, "grad_lhs"),
                          grad_rhs |-> Buf(heap, stor, "grad_rhs"),
                          routes |-> r.routes]
               /\ last' = "backward"
               /\ calls' = calls + 1
    /\ UNCHANGED <<op, kind, seen, devVars, auxVars>>

\* The shapes choose is run with.
ChooseShapes == [1..2 -> Dims]

\* Upstream gradients: positive ones, and ones with a zero and a negative
\* entry.
ChooseGradOuts(n) == {[i \in 0..(n - 1) |-> i + 1], [i \in 0..(n - 1) |-> i - 1]}

\* The mask and the two gradients are Storages of one shape, each allocated
\* or a broadcast view; the upstream gradient is the gradient of a forward
\* output, contiguous.  The device has run choose forward or has not.
InitChoose ==
    /\ loads = <<>> /\ fwdOk = <<>> /\ ncalls = 0 /\ lastCall = NoCall
    /\ threads = <<>> /\ opt = <<>> /\ stream = <<>> /\ touched = <<>>
    /\ modules \in {<<>>, load_ptx(<<>>, MOD(KernelOf("choose")),
                                   LoadPtxFns(KernelOf("choose")))}
    /\ kind = "choose"
    /\ \E sh \in ChooseShapes :
          /\ op = [shape |-> sh]
          /\ \E cond \in StoragesOf(sh), gl \in StoragesOf(sh), gr \in StoragesOf(sh) :
                /\ stor = ("cond" :> [data |-> 0, strides |-> cond.strides])
                          @@ ("grad_lhs" :> [data |-> 1, strides |-> gl.strides])
                          @@ ("grad_rhs" :> [data |-> 2, strides |-> gr.strides])
                          @@ ("grad_out" :> [data |-> 3, strides |-> shape_strides(sh)])
                /\ \E mask \in [0..(cond.len - 1) -> BOOLEAN],
                      go \in ChooseGradOuts(num_elements(sh)) :
                      heap = (0 :> mask)
                             @@ (1 :> [i \in 0..(gl.len - 1) |-> i % 2])
                             @@ (2 :> [i \in 0..(gr.len - 1) |-> (i + 1) % 2])
                             @@ (3 :> go)
    /\ calls = 0
    /\ last = "init"
    /\ pre = <<>>
    /\ seen = <<>>

NextChoose == ChooseBackward

SpecChoose == InitChoose /\ [][NextChoose]_vars

\* The mask and the upstream gradient at the i-th element of the shape.
MaskAt(i) ==
    Buf(heap, stor, "cond")[get_strided_index(i, Len(op.shape), op.shape,
                                              stor["cond"].strides)]
UpstreamAt(i) == Buf(heap, stor, "grad_out")[i]

\* The slot of a gradient Storage the i-th element of the shape lies in.
SlotOf(s, i) == get_strided_index(i, Len(op.shape), op.shape, stor[s].strides)

Elements == 0..(num_elements(op.shape) - 1)

\* What one backward call owes slot p of gradient s: the whole upstream
\* gradient of every element in the slot that the mask gives to s.
ChooseContribution(s, p) ==
    Sum([i \in Elements |-> UpstreamAt(i)],
        {i \in Elements : SlotOf(s, i) = p /\ (MaskAt(i) <=> s = "grad_lhs")})

(***************************************************************************)
(* C19.  Choose backward is a hard branch: for each element the kernel     *)
(* adds to exactly one gradient buffer, grad_lhs where the mask is true    *)
(* and grad_rhs where it is false, and the amount is the whole upstream    *)
(* gradient of the element; after the call each slot of either buffer has  *)
(* grown by the upstream gradients of its elements that the mask gives it  *)
(* and by nothing else.                                                    *)
(***************************************************************************)
C19_ChooseBackwardHardBranch ==
    (kind = "choose" /\ last = "backward") =>
        /\ Len(pre.routes) = num_elements(op.shape)
        /\ \A i \in Elements :
              LET r == pre.routes[i + 1]
              IN /\ r.to = (IF MaskAt(i) THEN "grad_lhs" ELSE "grad_rhs")
                 /\ r.slot = SlotOf(r.to, i)
                 /\ r.amount = UpstreamAt(i)
        /\ \A s \in {"grad_lhs", "grad_rhs"} :
              \A p \in DOMAIN Buf(heap, stor, s) :
                  Buf(heap, stor, s)[p] - pre[s][p] = ChooseContribution(s, p)

\* A backward over a mask with a true and a false element: the first adds
\* its whole non-zero gradient to grad_lhs and the second to grad_rhs, and
\* both buffers have changed.
C19_Witness ==
    /\ kind = "choose" /\ last = "backward"
    /\ \E i \in Elements, j \in Elements :
          /\ MaskAt(i) /\ ~MaskAt(j)
          /\ UpstreamAt(i) # 0 /\ UpstreamAt(j) # 0
          /\ pre.routes[i + 1].to = "grad_lhs" /\ pre.routes[j + 1].to = "grad_rhs"
    /\ Buf(heap, stor, "grad_lhs") # pre.grad_lhs
    /\ Buf(heap, stor, "grad_rhs") # pre.grad_rhs

(***************************************************************************)
(* Centered RMSprop from zeroed averages, with alpha from 0 up to 3/4 and  *)
(* with and without L2 decay.                                              *)
(***************************************************************************)
CenteredConfigs ==
    [lr : {Q(1, 2)}, alpha : {Q(0, 1), Q(1, 2), Q(3, 4)}, eps : {Q(1, 4), Q(1, 1024)},
     centered : {TRUE}, momentum : {None},
     weight_decay : {None, Some(L2(Q(1, 2)))}]

InitCentered ==
    /\ op = <<>> /\ kind = "rmsprop" /\ heap = <<>> /\ stor = <<>>
    /\ calls = 0 /\ last = "init" /\ pre = <<>> /\ seen = <<>>
    /\ modules = <<>> /\ loads = <<>> /\ fwdOk = <<>> /\ ncalls = 0 /\ lastCall = NoCall
    /\ threads = <<>> /\ stream = <<>> /\ touched = <<>>
    /\ \E cfg \in CenteredConfigs, n \in Lens, dbg \in BOOLEAN :
          opt = [cfg |-> cfg, debug_assertions |-> dbg,
                 param |-> Array(ParamData(n), n, 1),
                 square_avg |-> Array(ZeroData(n), n, 1),
                 grad_avg |-> Array(ZeroData(n), n, 1),
                 momentum |-> Array(ZeroData(n), n, 1),
                 grad |-> Array(<<>>, n, 1), prev |-> <<>>, result |-> "none", steps |-> 0]

NextCentered == \E grad \in Grads : Update(grad)

SpecCentered == InitCentered /\ [][NextCentered]_vars

(***************************************************************************)
(* C21.  Centered RMSprop never hands sqrt a negative number: from zeroed  *)
(* averages, after every sequence of updates, every element has            *)
(* square_avg >= grad_avg^2 >= 0 in exact arithmetic, so the radicand      *)
(* square_avg - grad_avg^2 + eps is at least eps, and no update ends in    *)
(* NaN.                                                                    *)
(***************************************************************************)
C21_CenteredRadicandNonNegative ==
    (kind = "rmsprop" /\ opt.cfg.centered) =>
        /\ opt.result # "NaN"
        /\ \A i \in DOMAIN opt.square_avg.data :
              LET s == opt.square_avg.data[i]
                  m == opt.grad_avg.data[i]
              IN /\ LessEq(Q(0, 1), powi2(m))
                 /\ LessEq(powi2(m), s)
                 /\ LessEq(opt.cfg.eps, Radicand(opt.cfg, s, m))

\* Two updates with alpha = 3/4: an element whose running mean was and is
\* not zero and whose square average is strictly above the mean's square.
C21_Witness ==
    /\ kind = "rmsprop" /\ opt.cfg.centered /\ opt.result = "Ok" /\ opt.steps = 2
    /\ \E i \in DOMAIN opt.square_avg.data :
          LET s == opt.square_avg.data[i]
              m == opt.grad_avg.data[i]
          IN /\ m # Q(0, 1)
             /\ Less(powi2(m), s)
             /\ opt.cfg.alpha = Q(3, 4)
             /\ opt.prev.grad_avg.data[i] # Q(0, 1)

(***************************************************************************)
(* Pooling on the host: what the loop nests index.                         *)
(***************************************************************************)
\* The kernel position (k1, k2) of window w falls into the padding or past
\* the input edge: oh * stride + k1 < padding, ow * stride + k2 < padding,
\* y >= h_in or x >= w_in.
Skipped(o, w, k1, k2) ==
    \/ w[3] * o.stride + k1 < o.padding
    \/ w[4] * o.stride + k2 < o.padding
    \/ w[3] * o.stride + k1 - o.padding >= o.h_in
    \/ w[4] * o.stride + k2 - o.padding >= o.w_in

\* The shape of the tensor behind each buffer of a pooling call.
ShapeOf(name) == IF name \in {"inp", "grad_inp"} THEN InpShape(op) ELSE OutShape(op)

PoolCalled == last \in {"forward", "backward"}

(***************************************************************************)
(* C22.  The host pooling kernels never index outside their buffers: with  *)
(* a contiguous input of shape (batch, chan, h_in, w_in) and a contiguous   *)
(* output of shape (batch, chan, h_out, w_out), no call panics on an       *)
(* index, every kernel position with oh * stride + k1 < padding,           *)
(* ow * stride + k2 < padding, y >= h_in or x >= w_in is skipped without a *)
(* read or a write, and every index a call uses is below the length of the *)
(* buffer it is used on, for every kernel, stride and padding.             *)
(***************************************************************************)
C22_PoolingStaysInBounds ==
    /\ last # "panic"
    /\ PoolCalled =>
          /\ \A i \in DOMAIN touched.position, j \in 0..(KernelArea(op) - 1) :
                /\ Skipped(op, Window(op, i), j \div op.kernel, j % op.kernel)
                      => touched.position[i][j] = None
                /\ touched.position[i][j] # None =>
                      \A name \in PositionBuffers(kind, last) :
                          /\ touched.position[i][j][1] >= 0
                          /\ touched.position[i][j][1] < NumElements(ShapeOf(name))
                          /\ touched.position[i][j][1] \in DOMAIN Buf(heap, stor, name)
          /\ \A i \in DOMAIN touched.window, name \in WindowBuffers(kind, last) :
                /\ touched.window[i] >= 0
                /\ touched.window[i] < NumElements(ShapeOf(name))
                /\ touched.window[i] \in DOMAIN Buf(heap, stor, name)

\* A max-pool backward with kernel 2, stride 2 and padding 1 over a 2 x 2
\* input: one position is skipped for the padding, one for lying past the
\* input edge, and the last element of the input gradient is written.
C22_Witness ==
    /\ last = "backward" /\ kind = "max"
    /\ op.kernel = 2 /\ op.stride = 2 /\ op.padding = 1
    /\ op.h_in = 2 /\ op.w_in = 2 /\ op.h_out = 2 /\ op.w_out = 2
    /\ \E i \in DOMAIN touched.position, j \in 0..(KernelArea(op) - 1) :
          /\ Window(op, i)[3] * op.stride + (j \div op.kernel) < op.padding
          /\ touched.position[i][j] = None
    /\ \E i \in DOMAIN touched.position, j \in 0..(KernelArea(op) - 1) :
          /\ Window(op, i)[3] * op.stride + (j \div op.kernel) - op.padding >= op.h_in
          /\ touched.position[i][j] = None
    /\ \E i \in DOMAIN touched.position, j \in 0..(KernelArea(op) - 1) :
          touched.position[i][j] = Some(NumElements(InpShape(op)) - 1)
    /\ \E i \in DOMAIN touched.window :
          touched.window[i] = NumElements(OutShape(op)) - 1

(***************************************************************************)
(* RMSprop: what an update writes.                                         *)
(***************************************************************************)
\* The optimizer as it was before the last update.
BeforeUpdate ==
    [opt EXCEPT !.param = opt.prev.param, !.square_avg = opt.prev.square_avg,
                !.grad_avg = opt.prev.grad_avg, !.momentum = opt.prev.momentum]

\* The loop body on element i of the buffers as they were before the update.
OwnUpdate(i) ==
    UpdateElement(opt.cfg, opt.prev.param.data[i], opt.grad.data[i],
                  opt.prev.square_avg.data[i], opt.prev.grad_avg.data[i],
                  opt.prev.momentum.data[i])

\* The same buffer after as before: its length, shape and strides.
SameLayout(a, b) ==
    Len(a.data) = Len(b.data) /\ a.shape = b.shape /\ a.strides = b.strides

(***************************************************************************)
(* C23.  An RMSprop update changes only the state its configuration uses:  *)
(* with momentum = None the momentum buffer is left as it was, with        *)
(* centered = false the grad_avg buffer is left as it was, while param and *)
(* square_avg are updated in place.  Each element is updated from its own  *)
(* param, grad and state values only: the update of element i is the same  *)
(* whatever gradient the other elements are handed, and an element the     *)
(* loop does not reach is left as it was.                                  *)
(***************************************************************************)
C23_UpdateFrame ==
    Updated =>
        /\ opt.cfg.momentum = None => opt.momentum = opt.prev.momentum
        /\ ~opt.cfg.centered => opt.grad_avg = opt.prev.grad_avg
        /\ SameLayout(opt.param, opt.prev.param)
        /\ SameLayout(opt.square_avg, opt.prev.square_avg)
        /\ SameLayout(opt.grad_avg, opt.prev.grad_avg)
        /\ SameLayout(opt.momentum, opt.prev.momentum)
        /\ \A i \in Reached :
              /\ opt.param.data[i] = OwnUpdate(i).p
              /\ opt.square_avg.data[i] = OwnUpdate(i).s_avg
              /\ opt.grad_avg.data[i] = OwnUpdate(i).g_avg
              /\ opt.momentum.data[i] = OwnUpdate(i).m
              /\ \A other \in Grads :
                    (i <= Len(other.data) /\ other.data[i] = opt.grad.data[i]) =>
                        LET new == UpdatedArrays(BeforeUpdate, other)
                        IN /\ new.param.data[i] = opt.param.data[i]
                           /\ new.square_avg.data[i] = opt.square_avg.data[i]
                           /\ new.grad_avg.data[i] = opt.grad_avg.data[i]
                           /\ new.momentum.data[i] = opt.momentum.data[i]
        /\ \A i \in (1..Len(opt.param.data)) \ Reached :
              /\ opt.param.data[i] = opt.prev.param.data[i]
              /\ opt.square_avg.data[i] = opt.prev.square_avg.data[i]
              /\ opt.grad_avg.data[i] = opt.prev.grad_avg.data[i]
              /\ opt.momentum.data[i] = opt.prev.momentum.data[i]

\* The second update of a two-element parameter without momentum and not
\* centered, the two elements handed different gradients: both elements of
\* param and of square_avg have changed, to different values, and the
\* momentum and grad_avg buffers are the zeros they were created as.
C23_Witness ==
    /\ Updated /\ opt.steps = 2
    /\ opt.cfg.momentum = None /\ ~opt.cfg.centered
    /\ Len(opt.param.data) = 2 /\ Reached = {1, 2}
    /\ opt.grad.data[1] # opt.grad.data[2]
    /\ \A i \in Reached :
          /\ opt.param.data[i] # opt.prev.param.data[i]
          /\ opt.square_avg.data[i] # opt.prev.square_avg.data[i]
          /\ opt.prev.square_avg.data[i] # Q(0, 1)
    /\ opt.square_avg.data[1] # opt.square_avg.data[2]
    /\ opt.momentum.data = ZeroData(2) /\ opt.grad_avg.data = ZeroData(2)

(***************************************************************************)
(* Pooling on the host: windows with no in-bounds position.                *)
(***************************************************************************)
\* Window w lies wholly in the padding or past the input edge.
EmptyWindow(w) == InBounds(op, w) = {}

\* The identity of the reduction of kernel family k.
PoolIdentity(k) ==
    CASE k = "max" -> NegInfinity
      [] k = "min" -> Infinity
      [] k = "avg" -> Zero

\* An output buffer of n elements holding what some earlier computation
\* left in it.
StaleOutput(n, v) == [i \in 0..(n - 1) |-> From(v + i)]

\* forward on the current input, with out holding out_buf when it is called.
ForwardFrom(out_buf) ==
    ForwardLoop(kind, op, make_4d(stor["inp"].strides), make_4d(stor["out"].strides),
                Buf(heap, stor, "inp"), out_buf, 0)

\* What the inner loops of backward for window w alone do to ginp_buf.
BackwardOfWindow(w, ginp_buf) ==
    LET istr == make_4d(stor["inp"].strides)
        ostr == make_4d(stor["out"].strides)
    IN IF kind = "avg"
       THEN AvgBwdWindow(op, istr, ginp_buf, w,
                         AvgBwdGrad(op, istr, ostr, Buf(heap, stor, "grad_out"), w), 0)
       ELSE ExtBwdWindow(op, istr, Buf(heap, stor, "inp"), ginp_buf, w,
                         Buf(heap, stor, "grad_out")[OutIdx(ostr, w)],
                         Buf(heap, stor, "out")[OutIdx(ostr, w)])

(***************************************************************************)
(* C24.  A pooling window with no in-bounds position yields the identity   *)
(* of the reduction in forward: -infinity for max-pool, +infinity for      *)
(* min-pool and 0 for avg-pool.  In backward such a window adds nothing to *)
(* any element of the input gradient: none of its kernel positions reads   *)
(* or writes an element, its loops leave the gradient as it is, and when   *)
(* every window is empty the input gradient is what it was before the      *)
(* call.  Forward overwrites the output: its result is the same whatever   *)
(* the output held before the call.                                        *)
(***************************************************************************)
C24_EmptyWindowYieldsIdentity ==
    /\ last = "forward" =>
          /\ \A w \in OutCoords(op) : EmptyWindow(w) => OutAt(w) = PoolIdentity(kind)
          /\ ForwardFrom(StaleOutput(NumElements(OutShape(op)), 5)) = Buf(heap, stor, "out")
    /\ last = "backward" =>
          /\ \A i \in DOMAIN touched.window :
                EmptyWindow(Window(op, i)) =>
                    /\ \A j \in 0..(KernelArea(op) - 1) : touched.position[i][j] = None
                    /\ BackwardOfWindow(Window(op, i), Buf(heap, stor, "grad_inp"))
                         = Buf(heap, stor, "grad_inp")
          /\ (\A w \in OutCoords(op) : EmptyWindow(w)) => Buf(heap, stor, "grad_inp") = pre

\* A min-pool forward, called after a backward call and an earlier forward
\* call that left +infinity in the output: of its four windows one is empty
\* and one is not, so that the output holds +infinity and a finite value.
C24_Witness ==
    /\ last = "forward" /\ kind = "min" /\ calls >= 1
    /\ \E w \in OutCoords(op) : pre[Flat(OutShape(op), w)] = Infinity
    /\ \E w \in OutCoords(op) : EmptyWindow(w) /\ OutAt(w) = Infinity
    /\ \E w \in OutCoords(op) : ~EmptyWindow(w) /\ OutAt(w) < Zero
    /\ \E c \in InpCoords(op) : GradInpAt(c) # GradInpData(op)[Flat(InpShape(op), c)]


====
